---- MODULE Spec2Model ----
(***************************************************************************)
(* The forecasting pipeline of the finance tracker (ml/projectedData.ts):  *)
(* Record Parser, Monthly Aggregator, Feature Builder, Autoregressive      *)
(* Projector, Result Store and the pipeline entry point.                   *)
(*                                                                         *)
(* Numbers.  Amounts and totals are integers (minor currency units).      *)
(* Quotients the code computes (features, labels) are exact rationals,     *)
(* records [n |-> numerator, d |-> denominator] with d > 0.                *)
(***************************************************************************)
EXTENDS Integers, Sequences, FiniteSets, TLC

VARIABLES
    months,         \* the aggregate sequence (monthlyData) handed to createFeatures
    cf,             \* the call of createFeatures: how it was reached, its outcome
    transactions,   \* the transaction list handed to aggregateByMonth
    agg,            \* the call of aggregateByMonth: its state and result
    gp,             \* the frame of one generateProjections call
    localStorage,   \* the entry under the key "finance-projections"
    lastSaved,      \* what the latest saveProjectionsToStorage call was given
    loadRet,        \* what loadProjectionsFromStorage returned, if called since the latest save
    run,            \* the frame of one generateAndSaveProjections invocation
    csvText,        \* the text handed to parseCSV, a sequence of symbols
    parsed,         \* the call of parseCSV: its result
    filterCall,     \* the call of filterByCurrency: its arguments and result
    yearly,         \* the frame of one loadHistoricalYearlyData invocation
    race,           \* two overlapping generateAndSaveProjections invocations: their frames
    dash            \* the App's view, the Dashboard's state and its handlers in flight

featVars == <<months, cf>>
aggVars == <<transactions, agg>>
projVars == <<gp>>
storeVars == <<localStorage, lastSaved, loadRet>>
pipeVars == <<run>>
parseVars == <<csvText, parsed>>
auxVars == <<filterCall, yearly, race, dash>>
vars == <<featVars, aggVars, projVars, storeVars, pipeVars, parseVars, auxVars>>

\* a call that has not been made
Idle == [pc |-> "idle"]

\* localStorage.getItem answers null: nothing is stored under the key
StoredNothing == [has |-> FALSE]

\* the components a specification does not exercise, at rest
FeatAtRest == months = <<>> /\ cf = Idle
AggAtRest == transactions = <<>> /\ agg = Idle
ProjAtRest == gp = Idle
StoreAtRest == localStorage = StoredNothing /\ lastSaved = Idle /\ loadRet = Idle
PipeAtRest == run = Idle
ParseAtRest == csvText = <<>> /\ parsed = Idle
AuxAtRest == filterCall = Idle /\ yearly = Idle /\ race = Idle /\ dash = Idle

(***************************************************************************)
(* Bounds of the model.                                                    *)
(***************************************************************************)
MaxHorizon == 13        \* largest numMonths a direct call is given
MaxTxns == 3            \* longest transaction list handed to the aggregator
MaxMonths == 4          \* longest aggregate sequence handed to createFeatures
MaxProjections == 2     \* longest projection list of a bundle handed to save directly
MaxFileTxns == 4        \* most records in the source file the pipeline fetches
MaxLines == 2           \* most lines after the header in a text handed to parseCSV

\* the horizon generateAndSaveProjections asks for
PipelineHorizon == 12
Years == {2024}         \* the calendar years the drawn histories end in

(***************************************************************************)
(* Arithmetic helpers.                                                     *)
(***************************************************************************)
Min(a, b) == IF a < b THEN a ELSE b
Max(a, b) == IF a > b THEN a ELSE b

RECURSIVE SumSeq(_)
SumSeq(s) == IF s = <<>> THEN 0 ELSE Head(s) + SumSeq(Tail(s))

RECURSIVE MaxSeq(_)
\* Math.max(...xs) of a non-empty list
MaxSeq(s) == IF Len(s) = 1 THEN Head(s) ELSE Max(Head(s), MaxSeq(Tail(s)))

RECURSIVE MinSeq(_)
\* Math.min(...xs) of a non-empty list
MinSeq(s) == IF Len(s) = 1 THEN Head(s) ELSE Min(Head(s), MinSeq(Tail(s)))

Rat(num, den) == [n |-> num, d |-> den]
RatDivInt(r, k) == [n |-> r.n, d |-> r.d * k]
RatZero == Rat(0, 1)
\* 0 <= r <= 1 for a rational with positive denominator
InUnit(r) == r.d > 0 /\ 0 <= r.n /\ r.n <= r.d
RatEq(r, q) == r.n * q.d = q.n * r.d

\* Array.prototype.slice(-3): the last three elements, all when fewer
SliceLast3(s) == IF Len(s) <= 3 THEN s ELSE SubSeq(s, Len(s) - 2, Len(s))

\* `${year}-${month.toString().padStart(2, "0")}`
PadStart2(k) == IF k < 10 THEN "0" \o ToString(k) ELSE ToString(k)
MonthKeyOf(year, month) == ToString(year) \o "-" \o PadStart2(month)

(***************************************************************************)
(* Feature Builder: createFeatures.                                        *)
(***************************************************************************)
\* mutation: the window's sum is not divided by the number of months in it
MovingAvg_NotDivided(totals, k) ==
    LET i == k - 1
        lookback == Min(i, 3)
        from == Max(0, i - lookback) + 1
        sum == SumSeq(SubSeq(totals, from, k - 1))
    IN  IF lookback > 0 THEN Rat(sum, 1) ELSE RatZero

\* mutation: the window ends at the month itself
MovingAvg_IncludesCurrent(totals, k) ==
    LET i == k - 1
        lookback == Min(i, 3)
        from == Max(0, i - lookback) + 2
        sum == SumSeq(SubSeq(totals, from, k))
    IN  IF lookback > 0 THEN Rat(sum, lookback) ELSE RatZero

\* the moving average of the up to three entries before 1-based index k
MovingAvg(totals, k) ==
    LET i == k - 1
        lookback == Min(i, 3)
        from == Max(0, i - lookback) + 1
        sum == SumSeq(SubSeq(totals, from, k - 1))
    IN  IF lookback > 0 THEN Rat(sum, lookback) ELSE RatZero

\* mutation: the division is not guarded by maxTotal > 0
NormalizeBy_Unguarded(avg, maxTotal) == RatDivInt(avg, maxTotal)

NormalizeBy(avg, maxTotal) == IF maxTotal > 0 THEN RatDivInt(avg, maxTotal) ELSE RatZero

YearRange(minYear, maxYear) == IF maxYear - minYear > 0 THEN maxYear - minYear ELSE 1

createFeatures(monthlyData) ==
    IF Len(monthlyData) = 0
    THEN [ok |-> FALSE, error |-> "No monthly data available for feature creation"]
    ELSE
    LET years == [k \in 1..Len(monthlyData) |-> monthlyData[k].year]
        incomes == [k \in 1..Len(monthlyData) |-> monthlyData[k].totalIncome]
        expenses == [k \in 1..Len(monthlyData) |-> monthlyData[k].totalExpenses]
        minYear == MinSeq(years)
        maxYear == MaxSeq(years)
        maxIncome == MaxSeq(incomes)
        maxExpense == MaxSeq(expenses)
    IN  [ok |-> TRUE,
         features |-> [k \in 1..Len(monthlyData) |->
            <<Rat(monthlyData[k].month, 12),
              Rat(monthlyData[k].year - minYear, YearRange(minYear, maxYear)),
              NormalizeBy(MovingAvg(incomes, k), maxIncome),
              NormalizeBy(MovingAvg(expenses, k), maxExpense)>>],
         incomeLabels |-> [k \in 1..Len(monthlyData) |->
            IF maxIncome > 0 THEN Rat(incomes[k], maxIncome) ELSE RatZero],
         expenseLabels |-> [k \in 1..Len(monthlyData) |->
            IF maxExpense > 0 THEN Rat(expenses[k], maxExpense) ELSE RatZero],
         maxIncome |-> maxIncome,
         maxExpense |-> maxExpense,
         minYear |-> minYear,
         maxYear |-> maxYear]

\* mutation: the pipeline's check lets two months through
MonthsGuard_TwoSuffice(data) ==
    IF Len(data) < 2
    THEN [ok |-> FALSE, error |-> "Need at least 3 months of data for meaningful predictions"]
    ELSE createFeatures(data)

\* generateAndSaveProjections, steps 3 and 4: the length check, then createFeatures
MonthsGuard(data) ==
    IF Len(data) < 3
    THEN [ok |-> FALSE, error |-> "Need at least 3 months of data for meaningful predictions"]
    ELSE createFeatures(data)

(***************************************************************************)
(* Aggregate sequences handed to createFeatures: strictly increasing in    *)
(* (year, month), with gaps and a year change, totals non-negative.        *)
(***************************************************************************)
Calendar ==
    <<[year |-> 2024, month |-> 11], [year |-> 2024, month |-> 12],
      [year |-> 2025, month |-> 1], [year |-> 2025, month |-> 2],
      [year |-> 2025, month |-> 4]>>
IncomeTotals == {0, 1, 3}
ExpenseTotals == {0, 2}

\* the strictly increasing index lists of length k into the calendar
IncreasingPicks(k) ==
    {[j \in 1..k |-> CHOOSE x \in chosen : Cardinality({y \in chosen : y < x}) = j - 1] :
        chosen \in {c \in SUBSET (1..Len(Calendar)) : Cardinality(c) = k}}

AggregateSeqs ==
    UNION {
        {[j \in 1..k |->
            [year |-> Calendar[pick[j]].year,
             month |-> Calendar[pick[j]].month,
             monthKey |-> MonthKeyOf(Calendar[pick[j]].year, Calendar[pick[j]].month),
             totalIncome |-> inc[j],
             totalExpenses |-> exp[j],
             transactionCount |-> 1]] :
          pick \in IncreasingPicks(k), inc \in [1..k -> IncomeTotals], exp \in [1..k -> ExpenseTotals]}
        : k \in 0..MaxMonths}

InitFeat ==
    /\ months \in AggregateSeqs
    /\ cf = Idle
    /\ AggAtRest /\ ProjAtRest /\ StoreAtRest /\ PipeAtRest /\ ParseAtRest /\ AuxAtRest

\* createFeatures called on the sequence as it is
CreateFeaturesCall ==
    /\ cf.pc = "idle"
    /\ cf' = [pc |-> "returned", via |-> "direct", out |-> createFeatures(months)]
    /\ UNCHANGED <<months, aggVars, projVars, storeVars, pipeVars, parseVars, auxVars>>

\* createFeatures reached through the pipeline's length check
PipelineFeaturesStep ==
    /\ cf.pc = "idle"
    /\ cf' = [pc |-> "returned", via |-> "pipeline", out |-> MonthsGuard(months)]
    /\ UNCHANGED <<months, aggVars, projVars, storeVars, pipeVars, parseVars, auxVars>>

NextFeat == CreateFeaturesCall \/ PipelineFeaturesStep

SpecFeat == InitFeat /\ [][NextFeat]_vars

C5_FeaturesInUnitInterval ==
    (cf.pc = "returned" /\ cf.out.ok) =>
        \A k \in 1..Len(months) :
            /\ \A c \in 1..4 : InUnit(cf.out.features[k][c])
            /\ InUnit(cf.out.incomeLabels[k])
            /\ InUnit(cf.out.expenseLabels[k])

\* four months, the last with a full three-month window at the maximum
C5_Witness ==
    /\ cf.pc = "returned"
    /\ cf.out.ok
    /\ Len(months) = 4
    /\ cf.out.maxIncome = 3
    /\ RatEq(cf.out.features[4][3], Rat(1, 1))
    /\ RatEq(cf.out.features[4][4], Rat(2, 3))
    /\ RatEq(cf.out.features[4][2], Rat(1, 1))
    /\ RatEq(cf.out.incomeLabels[4], Rat(1, 3))

(***************************************************************************)
(* Monthly Aggregator: aggregateByMonth.                                   *)
(* A date "YYYY-MM-DD" is held as its three "-"-separated components, the  *)
(* strings that txn.date.split("-") returns.                               *)
(***************************************************************************)
\* Number(s) for a string of decimal digits, with or without a leading zero
\* (the numerals that occur in the dates drawn: days and months, and years)
Numerals == (0..31) \cup (2020..2030)
NumberOf(s) == CHOOSE k \in Numerals : ToString(k) = s \/ PadStart2(k) = s

\* the entry a month gets when its first record is seen
NewMonth(year, month, monthKey) ==
    [year |-> year, month |-> month, monthKey |-> monthKey,
     totalIncome |-> 0, totalExpenses |-> 0, transactionCount |-> 0]

\* the position of monthKey among the map's entries (insertion order), 0 when absent
MapIndex(monthMap, monthKey) ==
    IF \E k \in 1..Len(monthMap) : monthMap[k].monthKey = monthKey
    THEN CHOOSE k \in 1..Len(monthMap) : monthMap[k].monthKey = monthKey
    ELSE 0

\* mutation: every amount is added to totalIncome, whatever the type
AddTxn_IgnoresType(monthData, txn) ==
    [monthData EXCEPT !.totalIncome = @ + txn.amount,
                      !.transactionCount = @ + 1]

\* the body's update of the month's entry
AddTxn(monthData, txn) ==
    IF txn.type = "income"
    THEN [monthData EXCEPT !.totalIncome = @ + txn.amount,
                           !.transactionCount = @ + 1]
    ELSE [monthData EXCEPT !.totalExpenses = @ + txn.amount,
                           !.transactionCount = @ + 1]

\* one pass of the for-of loop over the map as it stands
AggregateOne(monthMap, txn) ==
    LET year == NumberOf(txn.date[1])
        month == NumberOf(txn.date[2])
        monthKey == MonthKeyOf(year, month)
        present == IF MapIndex(monthMap, monthKey) = 0
                   THEN Append(monthMap, NewMonth(year, month, monthKey))
                   ELSE monthMap
        at == MapIndex(present, monthKey)
    IN  [present EXCEPT ![at] = AddTxn(@, txn)]

RECURSIVE AggregateAll(_, _)
AggregateAll(monthMap, txns) ==
    IF txns = <<>> THEN monthMap
    ELSE AggregateAll(AggregateOne(monthMap, Head(txns)), Tail(txns))

\* mutation: the comparator orders by month alone
CompareMonths_MonthOnly(a, b) == a.month - b.month

\* the comparator handed to sort
CompareMonths(a, b) == IF a.year # b.year THEN a.year - b.year ELSE a.month - b.month

RECURSIVE InsertSorted(_, _)
\* x placed after every entry that does not compare greater (a stable sort)
InsertSorted(sorted, x) ==
    IF sorted = <<>> THEN <<x>>
    ELSE IF CompareMonths(Head(sorted), x) > 0 THEN <<x>> \o sorted
    ELSE <<Head(sorted)>> \o InsertSorted(Tail(sorted), x)

RECURSIVE SortMonths(_, _)
SortMonths(done, rest) ==
    IF rest = <<>> THEN done
    ELSE SortMonths(InsertSorted(done, Head(rest)), Tail(rest))

\* mutation: an empty aggregate is made for each month between the first and the last
aggregateByMonth_FillsGaps(txns) ==
    LET sorted == SortMonths(<<>>, AggregateAll(<<>>, txns))
        first == sorted[1].year * 12 + sorted[1].month - 1
        last == sorted[Len(sorted)].year * 12 + sorted[Len(sorted)].month - 1
        Entry(idx) ==
            LET y == idx \div 12
                m == (idx % 12) + 1
            IN  IF \E j \in 1..Len(sorted) : sorted[j].year = y /\ sorted[j].month = m
                THEN sorted[CHOOSE j \in 1..Len(sorted) : sorted[j].year = y /\ sorted[j].month = m]
                ELSE NewMonth(y, m, MonthKeyOf(y, m))
    IN  IF sorted = <<>> THEN <<>>
        ELSE [k \in 1..(last - first + 1) |-> Entry(first + k - 1)]

aggregateByMonth(txns) == SortMonths(<<>>, AggregateAll(<<>>, txns))

(***************************************************************************)
(* Transaction lists handed to the aggregator: any order, repeated months, *)
(* a year change (2024-12 to 2025-01) and a month with no record (2025-02).*)
(***************************************************************************)
TxnDates == {<<"2024", "12", "31">>, <<"2025", "01", "15">>, <<"2025", "03", "01">>}
TxnTypes == {"income", "expense"}
TxnAmounts == {1, 2}

TxnUniverse ==
    [date : TxnDates, type : TxnTypes, amount : TxnAmounts, currency : {"GBP"}]

SeqsUpTo(S, n) == UNION {[1..k -> S] : k \in 0..n}

InitAgg ==
    /\ transactions \in SeqsUpTo(TxnUniverse, MaxTxns)
    /\ agg = Idle
    /\ ProjAtRest /\ FeatAtRest /\ StoreAtRest /\ PipeAtRest /\ ParseAtRest /\ AuxAtRest

AggregateByMonthCall ==
    /\ agg.pc = "idle"
    /\ agg' = [pc |-> "returned", result |-> aggregateByMonth(transactions)]
    /\ UNCHANGED <<transactions, featVars, projVars, storeVars, pipeVars, parseVars, auxVars>>

NextAgg == AggregateByMonthCall

SpecAgg == InitAgg /\ [][NextAgg]_vars

(***************************************************************************)
(* C2: the monthKeys of aggregateByMonth's result are pairwise distinct    *)
(* and strictly increasing in (year, month) order, whatever the order of   *)
(* the input records.                                                      *)
(***************************************************************************)
C2_StrictlyIncreasingKeys ==
    agg.pc = "returned" =>
        \A j, k \in 1..Len(agg.result) :
            j < k =>
                /\ agg.result[j].monthKey # agg.result[k].monthKey
                /\ \/ agg.result[j].year < agg.result[k].year
                   \/ /\ agg.result[j].year = agg.result[k].year
                      /\ agg.result[j].month < agg.result[k].month

\* records given out of order (2025-03, 2024-12, 2025-01) come back in order
C2_Witness ==
    /\ agg.pc = "returned"
    /\ Len(transactions) = 3
    /\ transactions[1].date[2] = "03"
    /\ transactions[2].date[2] = "12"
    /\ transactions[3].date[2] = "01"
    /\ Len(agg.result) = 3
    /\ agg.result[1].monthKey = "2024-12"
    /\ agg.result[3].monthKey = "2025-03"

(***************************************************************************)
(* C3: each aggregate's totalIncome is the sum of the amounts of the input *)
(* records of that month with type income, its totalExpenses the sum over  *)
(* the month's other records; no amount is counted in two months or in     *)
(* both totals.                                                            *)
(***************************************************************************)
\* the positions of the input records dated in (year, month) that satisfy isIncome
PositionsOf(year, month, isIncome) ==
    {p \in 1..Len(transactions) :
        /\ NumberOf(transactions[p].date[1]) = year
        /\ NumberOf(transactions[p].date[2]) = month
        /\ (transactions[p].type = "income") = isIncome}

RECURSIVE SumAmountsAt(_)
SumAmountsAt(positions) ==
    IF positions = {} THEN 0
    ELSE LET p == CHOOSE q \in positions : TRUE
         IN  transactions[p].amount + SumAmountsAt(positions \ {p})

C3_ExactTotals ==
    agg.pc = "returned" =>
        /\ \A k \in 1..Len(agg.result) :
            /\ agg.result[k].totalIncome =
                 SumAmountsAt(PositionsOf(agg.result[k].year, agg.result[k].month, TRUE))
            /\ agg.result[k].totalExpenses =
                 SumAmountsAt(PositionsOf(agg.result[k].year, agg.result[k].month, FALSE))
        \* every amount is in exactly one total: the totals add up to the input
        /\ SumSeq([k \in 1..Len(agg.result) |->
                     agg.result[k].totalIncome + agg.result[k].totalExpenses])
             = SumSeq([p \in 1..Len(transactions) |-> transactions[p].amount])

\* a month with two income records and one expense record
C3_Witness ==
    /\ agg.pc = "returned"
    /\ Len(agg.result) = 1
    /\ agg.result[1].totalIncome = 3
    /\ agg.result[1].totalExpenses = 2
    /\ agg.result[1].transactionCount = 3

(***************************************************************************)
(* A fitted model is a deterministic function of the feature vector; the   *)
(* linear output unit is unbounded.  The family below stands for the       *)
(* networks training can return: its members answer with a normalized      *)
(* share (an integer here, so that share * maximum stays an integer).      *)
(***************************************************************************)
ModelKinds == {"zero", "unit", "over", "under", "seasonal"}

Predict(model, featureVector) ==
    CASE model = "zero" -> 0
      [] model = "unit" -> 1
      [] model = "over" -> 2
      [] model = "under" -> -1
      [] model = "seasonal" -> featureVector[1].n % 2

(***************************************************************************)
(* Autoregressive Projector: generateProjections.                          *)
(***************************************************************************)
\* the frame at entry: locals initialised, loop not yet entered
GPEnter(incomeModel, expenseModel, monthlyData, maxIncome, maxExpense, minYear, maxYear, numMonths) ==
    LET lastMonth == monthlyData[Len(monthlyData)]
        tail == SliceLast3(monthlyData)
    IN  [pc |-> "loop",
         incomeModel |-> incomeModel, expenseModel |-> expenseModel,
         monthlyData |-> monthlyData,
         maxIncome |-> maxIncome, maxExpense |-> maxExpense,
         minYear |-> minYear, maxYear |-> maxYear, numMonths |-> numMonths,
         projections |-> <<>>,
         currentYear |-> lastMonth.year,
         currentMonth |-> lastMonth.month,
         recentIncomes |-> [k \in 1..Len(tail) |-> tail[k].totalIncome],
         recentExpenses |-> [k \in 1..Len(tail) |-> tail[k].totalExpenses],
         featureVector |-> <<>>,
         liveTensors |-> {}, tensorReused |-> FALSE,
         i |-> 0]

\* mutation: the wrap to month 1 forgets to carry into the year
AdvanceMonth_NoYearCarry(year, month) ==
    IF month + 1 > 12 THEN [year |-> year, month |-> 1]
                      ELSE [year |-> year, month |-> month + 1]

\* currentMonth++; if (currentMonth > 12) { currentMonth = 1; currentYear++ }
AdvanceMonth(year, month) ==
    IF month + 1 > 12 THEN [year |-> year + 1, month |-> 1]
                      ELSE [year |-> year, month |-> month + 1]

\* mutation: the window's sum is not divided by its length
WindowMean_Sum(recent) == IF Len(recent) > 0 THEN Rat(SumSeq(recent), 1) ELSE RatZero

WindowMean(recent) == IF Len(recent) > 0 THEN Rat(SumSeq(recent), Len(recent)) ELSE RatZero

\* mutation: the oldest entry is evicted only once the window exceeds 4
PushEvict_KeepsFour(recent, x) ==
    LET pushed == Append(recent, x)
    IN  IF Len(pushed) > 4 THEN Tail(pushed) ELSE pushed

\* mutation: the entry just pushed is the one removed (pop in place of shift)
PushEvict_DropsNewest(recent, x) ==
    LET pushed == Append(recent, x)
    IN  IF Len(pushed) > 3 THEN SubSeq(pushed, 1, Len(pushed) - 1) ELSE pushed

\* push(x); if (length > 3) shift()
PushEvict(recent, x) ==
    LET pushed == Append(recent, x)
    IN  IF Len(pushed) > 3 THEN Tail(pushed) ELSE pushed

\* the tensors an iteration allocates: tf.tensor2d and the two predict results
StepTensors == {"featureTensor", "incomePredTensor", "expensePredTensor"}

\* mutation: the feature tensor is not disposed
StepDisposals_KeepsFeature == {"incomePredTensor", "expensePredTensor"}

\* the tensors disposed at the end of an iteration
StepDisposals == {"featureTensor", "incomePredTensor", "expensePredTensor"}

\* mutation: the prediction is shifted by the maximum instead of scaled
Denormalize_Shifts(prediction, maxTotal) == prediction + maxTotal

\* incomePredArray[0] * maxIncome
Denormalize(prediction, maxTotal) == prediction * maxTotal

\* one iteration of the for loop
GPIterate(f) ==
    LET cur == AdvanceMonth(f.currentYear, f.currentMonth)
        monthKey == MonthKeyOf(cur.year, cur.month)
        featureVector ==
            <<Rat(cur.month, 12),
              Rat(cur.year - f.minYear, YearRange(f.minYear, f.maxYear)),
              NormalizeBy(WindowMean(f.recentIncomes), f.maxIncome),
              NormalizeBy(WindowMean(f.recentExpenses), f.maxExpense)>>
        projectedIncome == Denormalize(Predict(f.incomeModel, featureVector), f.maxIncome)
        projectedExpenses == Denormalize(Predict(f.expenseModel, featureVector), f.maxExpense)
    IN  [f EXCEPT
            !.currentYear = cur.year,
            !.currentMonth = cur.month,
            !.featureVector = featureVector,
            !.projections = Append(@, [monthKey |-> monthKey,
                                       projectedIncome |-> projectedIncome,
                                       projectedExpenses |-> projectedExpenses]),
            !.recentIncomes = PushEvict(@, projectedIncome),
            !.recentExpenses = PushEvict(@, projectedExpenses),
            !.tensorReused = @ \/ (f.liveTensors \cap StepTensors # {}),
            !.liveTensors = (@ \cup StepTensors) \ StepDisposals,
            !.i = @ + 1]

(***************************************************************************)
(* Histories a direct call of the projector is given: between one and      *)
(* four consecutive months ending in (year, month).                        *)
(***************************************************************************)
\* the calendar month `back` months before (year, month)
MonthBefore(year, month, back) ==
    LET idx == year * 12 + (month - 1) - back
    IN  [year |-> idx \div 12, month |-> (idx % 12) + 1]

HistoryProfiles ==
    { <<[inc |-> 3, exp |-> 2]>>,
      <<[inc |-> 0, exp |-> 1], [inc |-> 0, exp |-> 4]>>,
      <<[inc |-> 2, exp |-> 0], [inc |-> 4, exp |-> 0], [inc |-> 1, exp |-> 0]>>,
      <<[inc |-> 1, exp |-> 1], [inc |-> 2, exp |-> 0], [inc |-> 0, exp |-> 3], [inc |-> 3, exp |-> 2]>> }

HistoryEnding(year, month, profile) ==
    [k \in 1..Len(profile) |->
        LET at == MonthBefore(year, month, Len(profile) - k)
        IN  [year |-> at.year, month |-> at.month,
             monthKey |-> MonthKeyOf(at.year, at.month),
             totalIncome |-> profile[k].inc,
             totalExpenses |-> profile[k].exp,
             transactionCount |-> 1]]

InitProj ==
    /\ \E y \in Years, m \in 1..12, numMonths \in 0..MaxHorizon, profile \in HistoryProfiles,
       models \in {<<"zero", "over">>, <<"seasonal", "unit">>, <<"under", "seasonal">>} :
        LET monthlyData == HistoryEnding(y, m, profile)
            feat == createFeatures(monthlyData)
        IN  gp = GPEnter(models[1], models[2], monthlyData,
                         feat.maxIncome, feat.maxExpense, feat.minYear, feat.maxYear, numMonths)
    /\ AggAtRest /\ FeatAtRest /\ StoreAtRest /\ PipeAtRest /\ ParseAtRest /\ AuxAtRest

GenerateProjectionsStep ==
    /\ gp.pc = "loop"
    /\ gp.i < gp.numMonths
    /\ gp' = GPIterate(gp)
    /\ UNCHANGED <<featVars, aggVars, storeVars, pipeVars, parseVars, auxVars>>

GenerateProjectionsReturn ==
    /\ gp.pc = "loop"
    /\ ~(gp.i < gp.numMonths)
    /\ gp' = [gp EXCEPT !.pc = "returned"]
    /\ UNCHANGED <<featVars, aggVars, storeVars, pipeVars, parseVars, auxVars>>

NextProj == GenerateProjectionsStep \/ GenerateProjectionsReturn

SpecProj == InitProj /\ [][NextProj]_vars

(***************************************************************************)
(* C1: generateProjections returns exactly numMonths entries, and entry k  *)
(* is keyed by the k-th calendar month after the last historical month:    *)
(* months stay in 1..12, wrap from 12 to 1 with the year incremented, and  *)
(* none is skipped or repeated.                                            *)
(***************************************************************************)
\* the k-th calendar month after (year, month), by month index arithmetic
MonthAfter(year, month, k) ==
    LET idx == year * 12 + (month - 1) + k
    IN  [year |-> idx \div 12, month |-> (idx % 12) + 1]

C1_ContiguousMonths ==
    gp.pc = "returned" =>
        LET last == gp.monthlyData[Len(gp.monthlyData)]
        IN  /\ Len(gp.projections) = gp.numMonths
            /\ \A k \in 1..Len(gp.projections) :
                LET at == MonthAfter(last.year, last.month, k)
                IN  /\ at.month \in 1..12
                    /\ gp.projections[k].monthKey = MonthKeyOf(at.year, at.month)
            /\ gp.currentMonth \in 1..12

\* the spec's example: last month 2024-11, horizon 12, yields 2024-12 .. 2025-11
C1_Witness ==
    /\ gp.pc = "returned"
    /\ gp.numMonths = 12
    /\ gp.monthlyData[Len(gp.monthlyData)].monthKey = "2024-11"
    /\ gp.projections[1].monthKey = "2024-12"
    /\ gp.projections[2].monthKey = "2025-01"
    /\ gp.projections[12].monthKey = "2025-11"
(***************************************************************************)
(* Result Store: saveProjectionsToStorage, loadProjectionsFromStorage.     *)
(* A number of a bundle is a JavaScript number: finite, NaN or Infinity.   *)
(* The stored text is held as the JSON tokens JSON.stringify writes.       *)
(***************************************************************************)
Num(v) == [t |-> "number", v |-> v]
NaN == [t |-> "NaN", v |-> 0]
Infinity == [t |-> "Infinity", v |-> 0]
JsNull == [t |-> "null", v |-> 0]

\* the finite numbers and the strings that occur in bundles
JsonInts == -20..20
JsonStrings ==
    {MonthKeyOf(y, m) : y \in 2024..2026, m \in 1..12}
        \cup {"2026-11-06T09:00:00.000Z", "2026-11-07T09:00:00.000Z"}

\* mutation: the numeral is written without its sign
StringifyNumber_DropsSign(x) ==
    IF x.t = "number" THEN ToString(IF x.v < 0 THEN 0 - x.v ELSE x.v) ELSE "null"

\* JSON.stringify of a number: a finite one as its numeral, NaN and Infinity as null
StringifyNumber(x) == IF x.t = "number" THEN ToString(x.v) ELSE "null"

\* JSON.stringify of a string
Quote(str) == "\"" \o str \o "\""

JSONStringify(result) ==
    [projections |-> [k \in 1..Len(result.projections) |->
        [monthKey |-> Quote(result.projections[k].monthKey),
         projectedIncome |-> StringifyNumber(result.projections[k].projectedIncome),
         projectedExpenses |-> StringifyNumber(result.projections[k].projectedExpenses)]],
     trainingDate |-> Quote(result.trainingDate),
     historicalMonths |-> StringifyNumber(result.historicalMonths)]

\* JSON.parse of a number token or of null
ParseNumber(tok) ==
    IF tok = "null" THEN JsNull ELSE Num(CHOOSE k \in JsonInts : ToString(k) = tok)

\* JSON.parse of a string token
ParseString(tok) == CHOOSE str \in JsonStrings : Quote(str) = tok

JSONParse(json) ==
    [projections |-> [k \in 1..Len(json.projections) |->
        [monthKey |-> ParseString(json.projections[k].monthKey),
         projectedIncome |-> ParseNumber(json.projections[k].projectedIncome),
         projectedExpenses |-> ParseNumber(json.projections[k].projectedExpenses)]],
     trainingDate |-> ParseString(json.trainingDate),
     historicalMonths |-> ParseNumber(json.historicalMonths)]

\* the entry setItem leaves under the key
Stored(json) == [has |-> TRUE, dataString |-> [wellFormed |-> TRUE, json |-> json]]

\* an entry whose text JSON.parse rejects (a truncated write of another program)
StoredGarbage ==
    [has |-> TRUE,
     dataString |-> [wellFormed |-> FALSE,
                     json |-> [projections |-> <<>>, trainingDate |-> "", historicalMonths |-> ""]]]

\* mutation: setItem writes only when the key holds nothing
saveProjectionsToStorage_KeepsFirst(store, result, setItemThrows) ==
    [store |-> IF setItemThrows \/ store.has THEN store ELSE Stored(JSONStringify(result)),
     threw |-> FALSE]

\* mutation: the new bundle is merged into the stored one, whose training date is kept
saveProjectionsToStorage_Merges(store, result, setItemThrows) ==
    [store |-> IF setItemThrows THEN store
               ELSE IF store.has /\ store.dataString.wellFormed
                    THEN Stored([JSONStringify(result) EXCEPT
                                    !.trainingDate = store.dataString.json.trainingDate])
               ELSE Stored(JSONStringify(result)),
     threw |-> FALSE]

\* mutation: the catch block rethrows what setItem threw
saveProjectionsToStorage_Rethrows(store, result, setItemThrows) ==
    [store |-> IF setItemThrows THEN store ELSE Stored(JSONStringify(result)),
     threw |-> setItemThrows]

\* the entry after saveProjectionsToStorage, and whether the call threw: a throw of
\* setItem (quota exceeded, storage disabled) is caught and logged, never rethrown
saveProjectionsToStorage(store, result, setItemThrows) ==
    [store |-> IF setItemThrows THEN store ELSE Stored(JSONStringify(result)),
     threw |-> FALSE]

ReturnedNull == [isNull |-> TRUE]
ReturnedValue(v) == [isNull |-> FALSE, value |-> v]

\* mutation: an absent entry is answered with an empty bundle
loadProjectionsFromStorage_DefaultsWhenAbsent(store, getItemThrows) ==
    IF getItemThrows THEN ReturnedNull
    ELSE IF ~store.has
         THEN ReturnedValue([projections |-> <<>>, trainingDate |-> "", historicalMonths |-> Num(0)])
    ELSE IF ~store.dataString.wellFormed THEN ReturnedNull
    ELSE ReturnedValue(JSONParse(store.dataString.json))

\* mutation: the catch block answers with an empty bundle
loadProjectionsFromStorage_DefaultsOnError(store, getItemThrows) ==
    IF getItemThrows \/ (store.has /\ ~store.dataString.wellFormed)
    THEN ReturnedValue([projections |-> <<>>, trainingDate |-> "", historicalMonths |-> Num(0)])
    ELSE IF ~store.has THEN ReturnedNull
    ELSE ReturnedValue(JSONParse(store.dataString.json))

\* what loadProjectionsFromStorage returns; a throw of getItem or of JSON.parse is caught
loadProjectionsFromStorage(store, getItemThrows) ==
    IF getItemThrows THEN ReturnedNull
    ELSE IF ~store.has THEN ReturnedNull
    ELSE IF ~store.dataString.wellFormed THEN ReturnedNull
    ELSE ReturnedValue(JSONParse(store.dataString.json))

(***************************************************************************)
(* Bundles handed to save: up to MaxProjections projected months following *)
(* 2024-12, with finite (negative too), NaN and Infinity amounts.          *)
(***************************************************************************)
BundleNumbers == {Num(7), Num(-2), NaN, Infinity}
TrainingDates == {"2026-11-06T09:00:00.000Z", "2026-11-07T09:00:00.000Z"}

Bundles ==
    UNION {
        {[projections |-> [k \in 1..n |->
            [monthKey |-> MonthKeyOf(2025, k),
             projectedIncome |-> inc[k],
             projectedExpenses |-> Num(k)]],
          trainingDate |-> date,
          historicalMonths |-> Num(3 + n)] :
         inc \in [1..n -> BundleNumbers], date \in TrainingDates}
        : n \in 0..MaxProjections}

\* the record of a call of saveProjectionsToStorage, `earlier` the record of the call
\* before it: allWrote, every call so far wrote; overwrote, this call replaced the
\* different bundle the call before it had written
SaveReturned(earlier, result, setItemThrows, threw) ==
    [pc |-> "returned", result |-> result, wrote |-> ~setItemThrows, threw |-> threw,
     allWrote |-> ~setItemThrows /\ (earlier.pc = "returned" => earlier.allWrote),
     overwrote |-> /\ ~setItemThrows
                   /\ earlier.pc = "returned"
                   /\ earlier.allWrote
                   /\ earlier.result # result]

InitStore ==
    /\ localStorage \in {StoredNothing, StoredGarbage} \cup {Stored(JSONStringify(b)) : b \in Bundles}
    /\ lastSaved = Idle
    /\ loadRet = Idle
    /\ FeatAtRest /\ AggAtRest /\ ProjAtRest /\ PipeAtRest /\ ParseAtRest /\ AuxAtRest

Save ==
    \E result \in Bundles, setItemThrows \in BOOLEAN :
        /\ localStorage' = saveProjectionsToStorage(localStorage, result, setItemThrows).store
        /\ lastSaved' = SaveReturned(lastSaved, result, setItemThrows,
                        saveProjectionsToStorage(localStorage, result, setItemThrows).threw)
        /\ loadRet' = Idle
        /\ UNCHANGED <<featVars, aggVars, projVars, pipeVars, parseVars, auxVars>>

Load ==
    \E getItemThrows \in BOOLEAN :
        /\ loadRet' = [pc |-> "returned", threw |-> FALSE, getItemThrew |-> getItemThrows,
                       ret |-> loadProjectionsFromStorage(localStorage, getItemThrows)]
        /\ UNCHANGED <<localStorage, lastSaved, featVars, aggVars, projVars, pipeVars, parseVars, auxVars>>

NextStore == Save \/ Load

SpecStore == InitStore /\ [][NextStore]_vars

\* every number of the bundle is finite
AllFinite(result) ==
    /\ result.historicalMonths.t = "number"
    /\ \A k \in 1..Len(result.projections) :
        /\ result.projections[k].projectedIncome.t = "number"
        /\ result.projections[k].projectedExpenses.t = "number"

\* a load that follows a save whose write went through and read the store
LoadAfterSave ==
    /\ loadRet.pc = "returned"
    /\ ~loadRet.getItemThrew
    /\ lastSaved.pc = "returned"
    /\ lastSaved.wrote

(***************************************************************************)
(* C6 (as stated): for any result bundle, save followed by load returns a  *)
(* value deep-equal to the saved bundle.                                   *)
(***************************************************************************)
C6_AsStated ==
    LoadAfterSave => loadRet.ret = ReturnedValue(lastSaved.result)

(***************************************************************************)
(* C6 (amended): for any result bundle whose numbers are all finite, save  *)
(* (its write going through) followed by load returns a value deep-equal   *)
(* to the saved bundle; a NaN or Infinity amount comes back as null.       *)
(***************************************************************************)
C6_RoundTripFinite ==
    LoadAfterSave =>
        /\ AllFinite(lastSaved.result) => loadRet.ret = ReturnedValue(lastSaved.result)
        /\ ~loadRet.ret.isNull
        /\ loadRet.ret.value.trainingDate = lastSaved.result.trainingDate
        /\ Len(loadRet.ret.value.projections) = Len(lastSaved.result.projections)
        /\ \A k \in 1..Len(lastSaved.result.projections) :
            LET saved == lastSaved.result.projections[k]
                back == loadRet.ret.value.projections[k]
            IN  /\ back.monthKey = saved.monthKey
                /\ back.projectedExpenses = saved.projectedExpenses
                /\ back.projectedIncome =
                     (IF saved.projectedIncome.t = "number" THEN saved.projectedIncome ELSE JsNull)

\* a bundle of two finite months, one amount negative, comes back as saved
C6_Witness ==
    /\ LoadAfterSave
    /\ AllFinite(lastSaved.result)
    /\ Len(lastSaved.result.projections) = 2
    /\ lastSaved.result.projections[1].projectedIncome = Num(-2)
    /\ lastSaved.result.projections[2].projectedIncome = Num(7)
    /\ loadRet.ret = ReturnedValue(lastSaved.result)
(***************************************************************************)
(* Pipeline entry point: generateAndSaveProjections.                       *)
(* The frame of an invocation holds its locals and its position; the       *)
(* operators below are the continuations run between suspension points     *)
(* (the awaits on fetch, response.text, model.fit and tensor.data).        *)
(***************************************************************************)
\* the upper-case form of a currency code
UpperCase(code) ==
    CASE code = "gbp" -> "GBP"
      [] code = "usd" -> "USD"
      [] OTHER -> code

\* mutation: the codes are compared after case normalization
filterByCurrency_IgnoresCase(txns, currency) ==
    SelectSeq(txns, LAMBDA txn : UpperCase(txn.currency) = UpperCase(currency))

filterByCurrency(txns, currency) == SelectSeq(txns, LAMBDA txn : txn.currency = currency)

FetchRejected == "Failed to fetch"
ResponseNotOk == "Failed to load seedTransactions_1year_13000_labeled.csv: Not Found"
BodyRejected == "Failed to read the response body"
NoTransactions(currency) == "No transactions found for currency: " \o currency
TooFewMonths == "Need at least 3 months of data for meaningful predictions"

\* the call: everything before the first await
\* (served: the file the server holds, as the records parseCSV makes of its text)
Invoked(currency, store, served) ==
    [pc |-> "fetching", currency |-> currency, storeAtStart |-> store, served |-> served,
     fetched |-> "pending", body |-> "pending",
     transactions |-> <<>>, filteredTransactions |-> <<>>, monthlyData |-> <<>>,
     feat |-> Idle, modelsBuilt |-> 0, trainCalls |-> 0,
     incomeModel |-> "untrained", expenseModel |-> "untrained", modelsDisposed |-> 0,
     liveTensors |-> {}, tensorReused |-> FALSE,
     gp |-> Idle, result |-> Idle, setItemThrew |-> FALSE, error |-> ""]

\* the invocation's promise rejects
Raise(f, message) == [f EXCEPT !.pc = "raised", !.error = message]

\* loadCSVFile after await fetch: a rejection or a status that is not ok is rethrown
FetchSettled(f, outcome) ==
    CASE outcome = "rejected" -> Raise([f EXCEPT !.fetched = outcome], FetchRejected)
      [] outcome = "notOk" -> Raise([f EXCEPT !.fetched = outcome], ResponseNotOk)
      [] outcome = "ok" -> [f EXCEPT !.fetched = outcome, !.pc = "readingText"]

\* the tensors a call of trainModel allocates
TrainTensors == {"xTensor", "yTensor"}

\* the tensors trainModel disposes once fit has resolved
TrainDisposals == {"xTensor", "yTensor"}

\* mutation: historicalMonths counts the filtered records
ResultOf_CountsRecords(f, now) ==
    [projections |-> [k \in 1..Len(f.gp.projections) |->
        [monthKey |-> f.gp.projections[k].monthKey,
         projectedIncome |-> Num(f.gp.projections[k].projectedIncome),
         projectedExpenses |-> Num(f.gp.projections[k].projectedExpenses)]],
     trainingDate |-> now,
     historicalMonths |-> Num(Len(f.filteredTransactions))]

\* mutation: the models are built before the input is checked
AfterLoad_BuildsFirst(f, file) ==
    LET filtered == filterByCurrency(file, f.currency)
        monthlyData == aggregateByMonth(filtered)
        feat == MonthsGuard(monthlyData)
        loaded == [f EXCEPT !.transactions = file, !.filteredTransactions = filtered,
                            !.modelsBuilt = 2]
    IN  IF Len(filtered) = 0 THEN Raise(loaded, NoTransactions(f.currency))
        ELSE IF ~feat.ok THEN Raise([loaded EXCEPT !.monthlyData = monthlyData], feat.error)
        ELSE [loaded EXCEPT !.monthlyData = monthlyData,
                            !.feat = feat,
                            !.trainCalls = 1,
                            !.liveTensors = TrainTensors,
                            !.pc = "trainingIncome"]

\* steps 2 to 6: from the parsed file to the first await of trainModel
AfterLoad(f, file) ==
    LET filtered == filterByCurrency(file, f.currency)
        monthlyData == aggregateByMonth(filtered)
        feat == MonthsGuard(monthlyData)
        loaded == [f EXCEPT !.transactions = file, !.filteredTransactions = filtered]
    IN  IF Len(filtered) = 0 THEN Raise(loaded, NoTransactions(f.currency))
        ELSE IF ~feat.ok THEN Raise([loaded EXCEPT !.monthlyData = monthlyData], feat.error)
        ELSE [loaded EXCEPT !.monthlyData = monthlyData,
                            !.feat = feat,
                            !.modelsBuilt = 2,
                            !.trainCalls = 1,
                            !.liveTensors = TrainTensors,
                            !.pc = "trainingIncome"]

\* mutation: a body that cannot be read makes loadCSVFile fetch again
TextSettled_Refetches(f, outcome, file) ==
    IF outcome = "rejected" THEN [f EXCEPT !.body = "pending", !.fetched = "pending", !.pc = "fetching"]
    ELSE AfterLoad([f EXCEPT !.body = outcome], file)

\* loadCSVFile after await response.text(): parseCSV's records, or the rejection rethrown
TextSettled(f, outcome, file) ==
    IF outcome = "rejected" THEN Raise([f EXCEPT !.body = outcome], BodyRejected)
    ELSE AfterLoad([f EXCEPT !.body = outcome], file)

\* the income model's fit resolves; trainModel is called for the expense model
TrainIncomeSettled(f, kind) ==
    [f EXCEPT !.incomeModel = kind, !.trainCalls = 2, !.pc = "trainingExpense",
              !.tensorReused = @ \/ ((f.liveTensors \ TrainDisposals) \cap TrainTensors # {}),
              !.liveTensors = (@ \ TrainDisposals) \cup TrainTensors]

\* the expense model's fit resolves; generateProjections is entered with 12 months
TrainExpenseSettled(f, kind) ==
    [f EXCEPT !.expenseModel = kind,
              !.pc = "projecting",
              !.liveTensors = @ \ TrainDisposals,
              !.gp = GPEnter(f.incomeModel, kind, f.monthlyData,
                             f.feat.maxIncome, f.feat.maxExpense,
                             f.feat.minYear, f.feat.maxYear, PipelineHorizon)]

\* mutation: the income maximum is raised to a prediction that exceeds it
ProjectionStepped_Rescales(f) ==
    [f EXCEPT !.gp = [GPIterate(@) EXCEPT
        !.maxIncome = Max(@, GPIterate(f.gp).projections[f.gp.i + 1].projectedIncome)]]

\* one iteration of the projection loop
ProjectionStepped(f) == [f EXCEPT !.gp = GPIterate(@)]

\* step 8: the result object
ResultOf(f, now) ==
    [projections |-> [k \in 1..Len(f.gp.projections) |->
        [monthKey |-> f.gp.projections[k].monthKey,
         projectedIncome |-> Num(f.gp.projections[k].projectedIncome),
         projectedExpenses |-> Num(f.gp.projections[k].projectedExpenses)]],
     trainingDate |-> now,
     historicalMonths |-> Num(Len(f.monthlyData))]

\* steps 8 to 10 and the return, given what the save call did
Finished(f, now, setItemThrows, saveThrew) ==
    IF saveThrew
    THEN [Raise(f, "QuotaExceededError") EXCEPT !.setItemThrew = setItemThrows,
                                                !.result = ResultOf(f, now)]
    ELSE [f EXCEPT !.pc = "returned",
                   !.result = ResultOf(f, now),
                   !.setItemThrew = setItemThrows,
                   !.modelsDisposed = 2]

(***************************************************************************)
(* Source files the fetch answers with, as the record lists parseCSV makes *)
(* of them: up to MaxFileTxns records, two currencies, three months: a GBP  *)
(* income in each month, a GBP expense and a USD expense in the middle one.*)
(***************************************************************************)
Currencies == {"GBP", "USD"}
FileUniverse ==
    [date : TxnDates, type : {"income"}, amount : {2}, currency : {"GBP"}]
        \cup [date : {<<"2025", "01", "15">>}, type : {"expense"}, amount : {2},
               currency : Currencies]
SourceFiles == SeqsUpTo(FileUniverse, MaxFileTxns)

\* the fits the pipeline's training ends in
FittedKinds == {"over", "seasonal"}

Init ==
    /\ run = Idle
    \* nothing stored yet, or the bundle of an earlier run
    /\ localStorage \in {StoredNothing} \cup {Stored(JSONStringify(
                 [projections |-> <<>>, trainingDate |-> "2026-11-06T09:00:00.000Z",
                  historicalMonths |-> Num(3)]))}
    /\ lastSaved = Idle
    /\ loadRet = Idle
    /\ FeatAtRest /\ AggAtRest /\ ProjAtRest /\ ParseAtRest /\ AuxAtRest

Invoke ==
    /\ run.pc = "idle"
    /\ \E currency \in Currencies, served \in SourceFiles :
        run' = Invoked(currency, localStorage, served)
    /\ UNCHANGED <<featVars, aggVars, projVars, storeVars, parseVars, auxVars>>

FetchSettles ==
    /\ run.pc = "fetching"
    /\ \E outcome \in {"rejected", "notOk", "ok"} : run' = FetchSettled(run, outcome)
    /\ UNCHANGED <<featVars, aggVars, projVars, storeVars, parseVars, auxVars>>

TextSettles ==
    /\ run.pc = "readingText"
    /\ \E outcome \in {"rejected", "resolved"} : run' = TextSettled(run, outcome, run.served)
    /\ UNCHANGED <<featVars, aggVars, projVars, storeVars, parseVars, auxVars>>

TrainIncomeSettles ==
    /\ run.pc = "trainingIncome"
    /\ \E kind \in FittedKinds : run' = TrainIncomeSettled(run, kind)
    /\ UNCHANGED <<featVars, aggVars, projVars, storeVars, parseVars, auxVars>>

TrainExpenseSettles ==
    /\ run.pc = "trainingExpense"
    /\ \E kind \in FittedKinds : run' = TrainExpenseSettled(run, kind)
    /\ UNCHANGED <<featVars, aggVars, projVars, storeVars, parseVars, auxVars>>

ProjectionStep ==
    /\ run.pc = "projecting"
    /\ run.gp.i < run.gp.numMonths
    /\ run' = ProjectionStepped(run)
    /\ UNCHANGED <<featVars, aggVars, projVars, storeVars, parseVars, auxVars>>

Finish ==
    /\ run.pc = "projecting"
    /\ ~(run.gp.i < run.gp.numMonths)
    /\ \E now \in TrainingDates, setItemThrows \in BOOLEAN :
        LET out == saveProjectionsToStorage(localStorage, ResultOf(run, now), setItemThrows)
        IN  /\ localStorage' = out.store
            /\ lastSaved' = SaveReturned(lastSaved, ResultOf(run, now), setItemThrows, out.threw)
            /\ loadRet' = Idle
            /\ run' = Finished(run, now, setItemThrows, out.threw)
    /\ UNCHANGED <<featVars, aggVars, projVars, parseVars, auxVars>>

Next ==
    \/ Invoke
    \/ FetchSettles
    \/ TextSettles
    \/ TrainIncomeSettles
    \/ TrainExpenseSettles
    \/ ProjectionStep
    \/ Finish

Spec == Init /\ [][Next]_vars
InputErrors ==
    {FetchRejected, ResponseNotOk, BodyRejected, TooFewMonths}
        \cup {NoTransactions(c) : c \in Currencies}

\* the distinct calendar months among the file's records of the requested currency
MonthsOfCurrency(f) ==
    {<<f.transactions[k].date[1], f.transactions[k].date[2]>> :
        k \in {j \in 1..Len(f.transactions) : f.transactions[j].currency = f.currency}}

C8_InputErrorsFailFast ==
    /\ run.pc = "raised" =>
        /\ run.error \in InputErrors
        /\ run.modelsBuilt = 0
        /\ run.trainCalls = 0
        /\ run.incomeModel = "untrained" /\ run.expenseModel = "untrained"
        /\ run.gp = Idle
        /\ lastSaved = Idle
        /\ localStorage = run.storeAtStart
    /\ run.pc \notin {"idle", "fetching", "readingText"} =>
        /\ run.fetched \in {"rejected", "notOk"} =>
            (run.pc = "raised" /\ run.error \in {FetchRejected, ResponseNotOk})
        /\ run.body = "rejected" => (run.pc = "raised" /\ run.error = BodyRejected)
        /\ (run.body = "resolved" /\ MonthsOfCurrency(run) = {}) =>
            (run.pc = "raised" /\ run.error = NoTransactions(run.currency))
        /\ (run.body = "resolved" /\ Cardinality(MonthsOfCurrency(run)) \in {1, 2}) =>
            (run.pc = "raised" /\ run.error = TooFewMonths)

\* two months of the requested currency: the run raises, the earlier bundle stays stored
C8_Witness ==
    /\ run.pc = "raised"
    /\ run.error = TooFewMonths
    /\ Len(run.monthlyData) = 2
    /\ Len(run.transactions) = 3
    /\ run.modelsBuilt = 0
    /\ localStorage # StoredNothing
(***************************************************************************)
(* Record Parser: parseCSV.                                                *)
(* The text is a sequence of symbols: the separators "," and "\n", and     *)
(* words, each a maximal run of other characters.  An empty field leaves   *)
(* no symbol between its separators.                                       *)
(***************************************************************************)
Comma == ","
Newline == "\n"

RECURSIVE SplitOn(_, _, _)
\* String.prototype.split(sep): the segments between separators, `open` the one being read
SplitOn(text, sep, open) ==
    IF text = <<>> THEN <<open>>
    ELSE IF Head(text) = sep THEN <<open>> \o SplitOn(Tail(text), sep, <<>>)
    ELSE SplitOn(Tail(text), sep, Append(open, Head(text)))

RECURSIVE TrimStart(_)
TrimStart(text) ==
    IF text # <<>> /\ Head(text) = Newline THEN TrimStart(Tail(text)) ELSE text

RECURSIVE TrimEnd(_)
TrimEnd(text) ==
    IF text # <<>> /\ text[Len(text)] = Newline
    THEN TrimEnd(SubSeq(text, 1, Len(text) - 1)) ELSE text

\* String.prototype.trim(): line breaks at either end are white space
Trim(text) == TrimEnd(TrimStart(text))

RECURSIVE WordsToString(_)
\* the characters of a segment that holds no separator
WordsToString(segment) ==
    IF segment = <<>> THEN "" ELSE Head(segment) \o WordsToString(Tail(segment))

\* line.split(",")
FieldsOf(line) ==
    LET segments == SplitOn(line, Comma, <<>>)
    IN  [k \in 1..Len(segments) |-> WordsToString(segments[k])]

\* a property of the Record<string, string>: a string, or undefined
Defined(str) == [defined |-> TRUE, str |-> str]
Undefined == [defined |-> FALSE, str |-> ""]

\* transaction[name] after headers.forEach: the value of the last column so named
Property(headers, values, name) ==
    IF \E k \in 1..Len(headers) : headers[k] = name
    THEN LET last == CHOOSE k \in 1..Len(headers) :
                        /\ headers[k] = name
                        /\ \A j \in (k + 1)..Len(headers) : headers[j] # name
         IN  Defined(values[last])
    ELSE Undefined

\* parseFloat: the number the longest numeric prefix denotes, NaN when there is none
parseFloat(arg) ==
    IF ~arg.defined THEN NaN
    ELSE IF \E k \in JsonInts : ToString(k) = arg.str
         THEN Num(CHOOSE k \in JsonInts : ToString(k) = arg.str)
    ELSE IF \E k \in JsonInts : ToString(k) \o "x" = arg.str
         THEN Num(CHOOSE k \in JsonInts : ToString(k) \o "x" = arg.str)
    ELSE NaN

\* the typed record of one row (id stands for the thirteen fields copied as strings)
TypedTxn(headers, values) ==
    LET id == Property(headers, values, "id")
        amount == Property(headers, values, "amount")
    IN  [id |-> IF id # Defined("") THEN id ELSE Defined(""),
         amount |-> parseFloat(IF amount # Defined("") THEN amount ELSE Defined("0"))]

\* mutation: a row is kept unless it has fewer fields than the header
KeepsRow_AtLeast(headers, values) == ~(Len(values) < Len(headers))

\* the row is not skipped
KeepsRow(headers, values) == ~(Len(values) # Len(headers))

RECURSIVE ParseRows(_, _, _, _)
\* the for loop from line i on, `rows` the records pushed so far
ParseRows(headers, lines, i, rows) ==
    IF ~(i <= Len(lines)) THEN rows
    ELSE LET values == FieldsOf(lines[i])
         IN  IF KeepsRow(headers, values)
             THEN ParseRows(headers, lines, i + 1, Append(rows, TypedTxn(headers, values)))
             ELSE ParseRows(headers, lines, i + 1, rows)

parseCSV(text) ==
    LET lines == SplitOn(Trim(text), Newline, <<>>)
        headers == FieldsOf(lines[1])
    IN  ParseRows(headers, lines, 2, <<>>)

(***************************************************************************)
(* Texts handed to parseCSV: a header of one or two columns and up to      *)
(* MaxLines further lines of one field up to one more than the header has, *)
(* each field empty, a numeral or a word that is no number.                *)
(***************************************************************************)
Headers == {<<"amount">>, <<"id">>, <<"id", "amount">>}
FieldValues == {"", "7", "x"}

RECURSIVE JoinWith(_, _)
\* the symbols of the parts with the separator between them
JoinWith(parts, sep) ==
    IF Len(parts) = 1 THEN Head(parts)
    ELSE Head(parts) \o <<sep>> \o JoinWith(Tail(parts), sep)

\* the symbols of one line: an empty field contributes none
LineText(fields) ==
    JoinWith([k \in 1..Len(fields) |-> IF fields[k] = "" THEN <<>> ELSE <<fields[k]>>], Comma)

RowsFor(header) == UNION {[1..n -> FieldValues] : n \in 1..(Len(header) + 1)}

CsvTexts(header) ==
    UNION {
        {JoinWith(<<LineText(header)>> \o [k \in 1..n |-> LineText(rows[k])], Newline) :
            rows \in [1..n -> RowsFor(header)]}
        : n \in 0..MaxLines}

InitParse ==
    /\ \E header \in Headers : csvText \in CsvTexts(header)
    /\ parsed = Idle
    /\ FeatAtRest /\ AggAtRest /\ ProjAtRest /\ StoreAtRest /\ PipeAtRest /\ AuxAtRest

ParseCSVCall ==
    /\ parsed.pc = "idle"
    /\ parsed' = [pc |-> "returned", threw |-> FALSE, result |-> parseCSV(csvText)]
    /\ UNCHANGED <<csvText, featVars, aggVars, projVars, storeVars, pipeVars, auxVars>>

NextParse == ParseCSVCall

SpecParse == InitParse /\ [][NextParse]_vars

\* the lines of the trimmed text, each as its symbols
LinesOfText == SplitOn(Trim(csvText), Newline, <<>>)

\* the number of fields of a line: one more than it has commas
FieldCount(line) == Cardinality({k \in 1..Len(line) : line[k] = Comma}) + 1

\* the lines after the header whose field count is the header's, in text order
RECURSIVE DataLinesFrom(_)
DataLinesFrom(i) ==
    IF i > Len(LinesOfText) THEN <<>>
    ELSE IF FieldCount(LinesOfText[i]) = FieldCount(LinesOfText[1])
         THEN <<i>> \o DataLinesFrom(i + 1)
         ELSE DataLinesFrom(i + 1)

\* the text of the amount field of line i, or "" when the header names no amount
AmountText(i) ==
    LET amount == Property(FieldsOf(LinesOfText[1]), FieldsOf(LinesOfText[i]), "amount")
    IN  IF amount.defined THEN amount.str ELSE ""

HasAmountColumn == \E k \in 1..Len(FieldsOf(LinesOfText[1])) : FieldsOf(LinesOfText[1])[k] = "amount"

(***************************************************************************)
(* C9: parseCSV never raises on a malformed data row; a row whose amount   *)
(* field is not a parsable number yields a record with amount 0, and a row *)
(* whose amount field is empty yields a record with amount 0.              *)
(***************************************************************************)
C9_AsStated ==
    (parsed.pc = "returned" /\ HasAmountColumn) =>
        /\ ~parsed.threw
        /\ \A k \in 1..Len(DataLinesFrom(2)) :
            AmountText(DataLinesFrom(2)[k]) \in {"", "x"} => parsed.result[k].amount = Num(0)

(***************************************************************************)
(* C10: parseCSV returns exactly one record for each line after the header *)
(* whose comma-separated field count equals the header's, in the order of  *)
(* the lines; every other line is dropped without an error and without     *)
(* affecting the records of the other lines.                               *)
(***************************************************************************)
C10_OneRecordPerMatchingLine ==
    parsed.pc = "returned" =>
        LET kept == DataLinesFrom(2)
            headers == FieldsOf(LinesOfText[1])
        IN  /\ ~parsed.threw
            /\ Len(parsed.result) = Len(kept)
            /\ \A k \in 1..Len(kept) :
                parsed.result[k] = TypedTxn(headers, FieldsOf(LinesOfText[kept[k]]))

\* header "id,amount"; the row "x,7,7" is dropped and the row "x,7" after it is kept
C10_Witness ==
    /\ parsed.pc = "returned"
    /\ csvText = <<"id", ",", "amount", "\n", "x", ",", "7", ",", "7", "\n", "x", ",", "7">>
    /\ Len(parsed.result) = 1
    /\ parsed.result[1] = [id |-> Defined("x"), amount |-> Num(7)]
(***************************************************************************)
(* C11: loadProjectionsFromStorage returns null when nothing has ever been *)
(* saved under the projections key.                                        *)
(***************************************************************************)
C11_AbsentGivesNull ==
    (loadRet.pc = "returned" /\ ~localStorage.has) =>
        /\ loadRet.ret = ReturnedNull
        /\ ~loadRet.threw

\* a load whose getItem answered, before any save, from a store that holds nothing
C11_Witness ==
    /\ loadRet.pc = "returned"
    /\ ~loadRet.getItemThrew
    /\ lastSaved = Idle
    /\ localStorage = StoredNothing
    /\ loadRet.ret = ReturnedNull

\* the load met a payload JSON.parse rejects, or getItem threw
LoadFailedInside ==
    loadRet.getItemThrew \/ (localStorage.has /\ ~localStorage.dataString.wellFormed)

(***************************************************************************)
(* C12: when the stored payload fails to parse, or reading the store       *)
(* raises, loadProjectionsFromStorage returns null and propagates no error *)
(* to its caller; and a load leaves the stored payload unchanged.          *)
(***************************************************************************)
C12_ParseFailureGivesNull ==
    [][loadRet'.pc = "returned" =>
        /\ localStorage' = localStorage
        /\ LoadFailedInside' => (loadRet'.ret = ReturnedNull /\ ~loadRet'.threw)]_vars

\* a load of an unparsable payload answered null and the payload is still there
C12_Witness ==
    /\ loadRet.pc = "returned"
    /\ ~loadRet.getItemThrew
    /\ localStorage = StoredGarbage
    /\ loadRet.ret = ReturnedNull

\* a load that read the store after a run of saves every one of which wrote
LoadAfterSaves ==
    /\ loadRet.pc = "returned"
    /\ ~loadRet.getItemThrew
    /\ lastSaved.pc = "returned"
    /\ lastSaved.allWrote

(***************************************************************************)
(* C13 (as stated): after any sequence of successful saves, load returns   *)
(* the bundle of the most recent save.                                     *)
(***************************************************************************)
C13_AsStated ==
    LoadAfterSaves => loadRet.ret = ReturnedValue(lastSaved.result)

(***************************************************************************)
(* C13 (amended): after any sequence of successful saves, load returns     *)
(* what the most recent save wrote and nothing of an earlier save: its     *)
(* training date, its months in order and its amounts, deep-equal to the   *)
(* saved bundle when all its numbers are finite, with null in the place of *)
(* each NaN or Infinity amount otherwise.                                  *)
(***************************************************************************)
C13_LatestSaveWins ==
    LoadAfterSaves =>
        /\ ~loadRet.ret.isNull
        /\ AllFinite(lastSaved.result) => loadRet.ret.value = lastSaved.result
        /\ loadRet.ret.value.trainingDate = lastSaved.result.trainingDate
        /\ loadRet.ret.value.historicalMonths = lastSaved.result.historicalMonths
        /\ Len(loadRet.ret.value.projections) = Len(lastSaved.result.projections)
        /\ \A k \in 1..Len(lastSaved.result.projections) :
            LET saved == lastSaved.result.projections[k]
                back == loadRet.ret.value.projections[k]
            IN  /\ back.monthKey = saved.monthKey
                /\ back.projectedExpenses = saved.projectedExpenses
                /\ saved.projectedIncome.t = "number" => back.projectedIncome = saved.projectedIncome
                /\ saved.projectedIncome.t # "number" => back.projectedIncome = JsNull

\* a second save replaced the different bundle of the first, and load returns the second
C13_Witness ==
    /\ LoadAfterSaves
    /\ lastSaved.overwrote
    /\ AllFinite(lastSaved.result)
    /\ Len(lastSaved.result.projections) = 1
    /\ loadRet.ret = ReturnedValue(lastSaved.result)
(***************************************************************************)
(* Currency Filter called directly: lists of up to MaxTxns records over    *)
(* the stored codes GBP, USD and gbp, filtered by each of those codes.     *)
(***************************************************************************)
StoredCodes == {"GBP", "USD", "gbp"}
FilterUniverse ==
    [date : {<<"2025", "01", "15">>}, type : {"expense"}, amount : TxnAmounts, currency : StoredCodes]

InitFilter ==
    /\ \E txns \in SeqsUpTo(FilterUniverse, MaxTxns), currency \in StoredCodes :
        filterCall = [pc |-> "called", transactions |-> txns, currency |-> currency]
    /\ yearly = Idle
    /\ race = Idle
    /\ dash = Idle
    /\ FeatAtRest /\ AggAtRest /\ ProjAtRest /\ StoreAtRest /\ PipeAtRest /\ ParseAtRest

FilterByCurrencyCall ==
    /\ filterCall.pc = "called"
    /\ filterCall' = [pc |-> "returned",
                      transactions |-> filterCall.transactions,
                      currency |-> filterCall.currency,
                      result |-> filterByCurrency(filterCall.transactions, filterCall.currency)]
    /\ UNCHANGED <<yearly, race, dash, featVars, aggVars, projVars, storeVars, pipeVars, parseVars>>

NextFilter == FilterByCurrencyCall

SpecFilter == InitFilter /\ [][NextFilter]_vars

\* the positions of the input whose currency is the requested code, ascending
MatchingPositions(txns, currency) ==
    LET hits == {j \in 1..Len(txns) : txns[j].currency = currency}
    IN  [k \in 1..Cardinality(hits) |->
            CHOOSE j \in hits : Cardinality({h \in hits : h < j}) = k - 1]

(***************************************************************************)
(* C14: filterByCurrency returns exactly the input records whose currency  *)
(* is character-for-character the requested code, in input order; a USD    *)
(* record is excluded when GBP is requested and vice versa, and so is a    *)
(* record whose currency differs from the requested code only in case.     *)
(***************************************************************************)
C14_ExactCurrencyMatch ==
    filterCall.pc = "returned" =>
        LET at == MatchingPositions(filterCall.transactions, filterCall.currency)
        IN  /\ Len(filterCall.result) = Len(at)
            /\ \A k \in 1..Len(at) : filterCall.result[k] = filterCall.transactions[at[k]]
            /\ \A k \in 1..Len(filterCall.result) :
                /\ filterCall.currency = "GBP" => filterCall.result[k].currency \notin {"USD", "gbp"}
                /\ filterCall.currency = "USD" => filterCall.result[k].currency # "GBP"
                /\ filterCall.currency = "gbp" => filterCall.result[k].currency # "GBP"

\* GBP requested of a gbp, a GBP and a USD record: the GBP record alone
C14_Witness ==
    /\ filterCall.pc = "returned"
    /\ filterCall.currency = "GBP"
    /\ Len(filterCall.transactions) = 3
    /\ filterCall.transactions[1].currency = "gbp"
    /\ filterCall.transactions[2].currency = "GBP"
    /\ filterCall.transactions[3].currency = "USD"
    /\ filterCall.result = <<filterCall.transactions[2]>>
YearIndex(yearMap, year) ==
    IF \E k \in 1..Len(yearMap) : yearMap[k].year = year
    THEN CHOOSE k \in 1..Len(yearMap) : yearMap[k].year = year
    ELSE 0

\* one iteration of the loop over the filtered records
YearlyOne(yearMap, txn) ==
    LET year == txn.date[1]
        withYear == IF YearIndex(yearMap, year) = 0
                    THEN Append(yearMap, [year |-> year, income |-> 0, expenses |-> 0])
                    ELSE yearMap
        k == YearIndex(withYear, year)
    IN  IF txn.type = "income"
        THEN [withYear EXCEPT ![k].income = @ + txn.amount]
        ELSE [withYear EXCEPT ![k].expenses = @ + txn.amount]

RECURSIVE YearlyAll(_, _)
YearlyAll(yearMap, txns) ==
    IF txns = <<>> THEN yearMap ELSE YearlyAll(YearlyOne(yearMap, Head(txns)), Tail(txns))

\* a.year.localeCompare(b.year): for years written with four digits, their numeric order
CompareYears(a, b) == NumberOf(a.year) - NumberOf(b.year)

RECURSIVE InsertYear(_, _)
\* Array.prototype.sort is stable: x goes after the entries that do not compare greater
InsertYear(sorted, x) ==
    IF sorted = <<>> THEN <<x>>
    ELSE IF CompareYears(Head(sorted), x) > 0 THEN <<x>> \o sorted
    ELSE <<Head(sorted)>> \o InsertYear(Tail(sorted), x)

RECURSIVE SortYears(_, _)
SortYears(done, rest) ==
    IF rest = <<>> THEN done ELSE SortYears(InsertYear(done, Head(rest)), Tail(rest))

\* mutation: the records are not filtered by currency
YearlyTotals_Unfiltered(file, currency) ==
    SortYears(<<>>, YearlyAll(<<>>, file))

\* the body of the try block once the file is loaded
YearlyTotals(file, currency) ==
    SortYears(<<>>, YearlyAll(<<>>, filterByCurrency(file, currency)))

\* the call: everything before the first await
YearlyInvoked(currency) ==
    [pc |-> "fetching", currency |-> currency, loaded |-> FALSE, file |-> <<>>, ret |-> <<>>]

\* mutation: the catch block rethrows
YearlyCaught_Rethrows(f) == [f EXCEPT !.pc = "raised", !.ret = <<>>]

\* the catch block: the error is logged and an empty list returned
YearlyCaught(f) == [f EXCEPT !.pc = "returned", !.ret = <<>>]

YearlyFetchSettled(f, outcome) ==
    IF outcome = "ok" THEN [f EXCEPT !.pc = "readingText"] ELSE YearlyCaught(f)

YearlyTextSettled(f, outcome, file) ==
    IF outcome = "rejected" THEN YearlyCaught(f)
    ELSE [f EXCEPT !.pc = "returned", !.loaded = TRUE, !.file = file,
                   !.ret = YearlyTotals(file, f.currency)]

(***************************************************************************)
(* Source files of the yearly totals: up to MaxFileTxns records over two   *)
(* years, three types and two currencies.                                  *)
(***************************************************************************)
YearlyUniverse ==
    {[date |-> <<"2024", "12", "31">>, type |-> "income", amount |-> 1, currency |-> "GBP"],
     [date |-> <<"2024", "12", "31">>, type |-> "expense", amount |-> 2, currency |-> "GBP"],
     [date |-> <<"2025", "01", "15">>, type |-> "income", amount |-> 2, currency |-> "GBP"],
     [date |-> <<"2025", "01", "15">>, type |-> "transfer", amount |-> 2, currency |-> "GBP"],
     [date |-> <<"2025", "03", "01">>, type |-> "expense", amount |-> 1, currency |-> "GBP"],
     [date |-> <<"2025", "01", "15">>, type |-> "income", amount |-> 1, currency |-> "USD"]}

InitYearly ==
    /\ yearly = Idle
    /\ filterCall = Idle
    /\ race = Idle
    /\ dash = Idle
    /\ FeatAtRest /\ AggAtRest /\ ProjAtRest /\ StoreAtRest /\ PipeAtRest /\ ParseAtRest

YearlyInvoke ==
    /\ yearly.pc = "idle"
    /\ \E currency \in Currencies : yearly' = YearlyInvoked(currency)
    /\ UNCHANGED <<filterCall, race, dash, featVars, aggVars, projVars, storeVars, pipeVars, parseVars>>

YearlyFetchSettles ==
    /\ yearly.pc = "fetching"
    /\ \E outcome \in {"rejected", "notOk", "ok"} : yearly' = YearlyFetchSettled(yearly, outcome)
    /\ UNCHANGED <<filterCall, race, dash, featVars, aggVars, projVars, storeVars, pipeVars, parseVars>>

YearlyTextSettles ==
    /\ yearly.pc = "readingText"
    /\ \/ yearly' = YearlyTextSettled(yearly, "rejected", <<>>)
       \/ \E file \in SeqsUpTo(YearlyUniverse, MaxFileTxns) :
            yearly' = YearlyTextSettled(yearly, "resolved", file)
    /\ UNCHANGED <<filterCall, race, dash, featVars, aggVars, projVars, storeVars, pipeVars, parseVars>>

NextYearly == YearlyInvoke \/ YearlyFetchSettles \/ YearlyTextSettles

SpecYearly == InitYearly /\ [][NextYearly]_vars

\* the positions of the file's records of the requested currency dated in the year
YearPositions(year) ==
    {j \in 1..Len(yearly.file) :
        yearly.file[j].currency = yearly.currency /\ yearly.file[j].date[1] = year}

RECURSIVE SumAmountsOf(_)
\* the sum of the amounts of the file's records at the positions
SumAmountsOf(positions) ==
    IF positions = {} THEN 0
    ELSE LET j == CHOOSE h \in positions : TRUE
         IN  yearly.file[j].amount + SumAmountsOf(positions \ {j})

(***************************************************************************)
(* C16: loadHistoricalYearlyData returns exactly one entry per distinct    *)
(* calendar year present in the records of the requested currency, sorted  *)
(* by year ascending; income is the sum of the amounts of that year's      *)
(* income records and expenses the sum of the amounts of that year's other *)
(* records; records of other currencies contribute nothing.                *)
(***************************************************************************)
C16_YearlyTotals ==
    (yearly.pc = "returned" /\ yearly.loaded) =>
        LET ret == yearly.ret
            years == {yearly.file[j].date[1] :
                        j \in {h \in 1..Len(yearly.file) : yearly.file[h].currency = yearly.currency}}
        IN  /\ Len(ret) = Cardinality(years)
            /\ {ret[k].year : k \in 1..Len(ret)} = years
            /\ \A k \in 1..(Len(ret) - 1) : NumberOf(ret[k].year) < NumberOf(ret[k + 1].year)
            /\ \A k \in 1..Len(ret) :
                /\ ret[k].income =
                     SumAmountsOf({j \in YearPositions(ret[k].year) : yearly.file[j].type = "income"})
                /\ ret[k].expenses =
                     SumAmountsOf({j \in YearPositions(ret[k].year) : yearly.file[j].type # "income"})

\* GBP of a file that lists 2025 before 2024 and holds a USD record: 2024 then 2025
C16_Witness ==
    /\ yearly.pc = "returned"
    /\ yearly.loaded
    /\ yearly.currency = "GBP"
    /\ Len(yearly.file) = 4
    /\ yearly.file[1].date[1] = "2025"
    /\ yearly.file[1].type = "transfer"
    /\ yearly.file[2].currency = "USD"
    /\ yearly.file[3].date[1] = "2024"
    /\ yearly.file[4].date = <<"2025", "03", "01">>
    /\ Len(yearly.ret) = 2
    /\ yearly.ret[1].year = "2024"
    /\ yearly.ret[2] = [year |-> "2025", income |-> 0, expenses |-> 3]
\* the feature vector of the projection step just run, for a horizon of at most 12
StepFeatures == gp.featureVector

ProjectionStepRun == gp # Idle /\ gp.numMonths <= 12 /\ gp.i >= 1

\* the models whose answers are shares within [0, 1]
ShareKinds == {"zero", "unit", "seasonal"}

IncomeSeries ==
    [k \in 1..Len(gp.monthlyData) |-> gp.monthlyData[k].totalIncome]
        \o [k \in 1..Len(gp.projections) |-> gp.projections[k].projectedIncome]
ExpenseSeries ==
    [k \in 1..Len(gp.monthlyData) |-> gp.monthlyData[k].totalExpenses]
        \o [k \in 1..Len(gp.projections) |-> gp.projections[k].projectedExpenses]

\* what a window becomes when x is pushed: the oldest entry leaves a window of 3
AfterPush(window, x) ==
    IF Len(window) = 3 THEN <<window[2], window[3], x>> ELSE window \o <<x>>

(***************************************************************************)
(* C18: in generateProjections each trailing window (income, expense)      *)
(* holds at most 3 values in every state of the loop, from seeding through *)
(* the last step; a push onto a window of 3 evicts exactly the oldest      *)
(* entry before the next prediction, and the window never grows beyond 3   *)
(* nor loses any other entry.                                              *)
(***************************************************************************)
C18_WindowAtMostThree ==
    /\ [](gp # Idle => (Len(gp.recentIncomes) <= 3 /\ Len(gp.recentExpenses) <= 3))
    /\ [][(gp # Idle /\ gp'.i = gp.i + 1) =>
            /\ gp'.recentIncomes =
                 AfterPush(gp.recentIncomes, gp'.projections[gp'.i].projectedIncome)
            /\ gp'.recentExpenses =
                 AfterPush(gp.recentExpenses, gp'.projections[gp'.i].projectedExpenses)]_vars

\* after step 2 of a four-month history the window holds one historical total, then two predictions
C18_Witness ==
    /\ gp # Idle
    /\ Len(gp.monthlyData) = 4
    /\ gp.i = 2
    /\ gp.incomeModel = "seasonal"
    /\ gp.recentIncomes = <<gp.monthlyData[4].totalIncome,
                            gp.projections[1].projectedIncome,
                            gp.projections[2].projectedIncome>>

\* the last 3 elements of a sequence, all of them when it has fewer
LastThree(series) ==
    [k \in 1..Min(3, Len(series)) |-> series[Len(series) - Min(3, Len(series)) + k]]

\* the series as it was before the step just run
BeforeStep(series) == SubSeq(series, 1, Len(series) - 1)

\* the normalized mean of a window, as a fraction
NormalizedMean(window, maxTotal) ==
    IF maxTotal > 0 /\ Len(window) > 0 THEN Rat(SumSeq(window), Len(window) * maxTotal)
    ELSE RatZero

(***************************************************************************)
(* C19: at projection step k the window used to compute the income (resp.  *)
(* expense) moving-average feature is the last 3 elements (all when fewer  *)
(* than 3 exist) of the historical incomes (resp. expenses) in             *)
(* chronological order followed by the projected ones of steps 1..k-1:     *)
(* step 1 uses historical totals only, every step k >= 4 only the three    *)
(* immediately preceding predictions.                                      *)
(***************************************************************************)
C19_WindowIsTrailingThree ==
    gp # Idle =>
        \* the window the next step reads
        /\ gp.recentIncomes = LastThree(IncomeSeries)
        /\ gp.recentExpenses = LastThree(ExpenseSeries)
        \* the features of the step just run are the normalized means of the window it read
        /\ gp.i >= 1 =>
            /\ RatEq(gp.featureVector[3],
                     NormalizedMean(LastThree(BeforeStep(IncomeSeries)), gp.maxIncome))
            /\ RatEq(gp.featureVector[4],
                     NormalizedMean(LastThree(BeforeStep(ExpenseSeries)), gp.maxExpense))
        /\ gp.i >= 3 =>
            gp.recentIncomes = [k \in 1..3 |-> gp.projections[gp.i - 3 + k].projectedIncome]

\* step 4 of a four-month history has run on the predictions of steps 1 to 3 alone
C19_Witness ==
    /\ gp # Idle
    /\ Len(gp.monthlyData) = 4
    /\ gp.i = 4
    /\ gp.expenseModel = "over"
    /\ gp.maxExpense = 3
    /\ gp.featureVector[4] = Rat(18, 9)
    /\ gp.recentExpenses = <<6, 6, 6>>
(***************************************************************************)
(* C20: the set of (year, month) pairs in aggregateByMonth's output is the *)
(* set of distinct (year, month) pairs occurring in the dates of the input *)
(* records: no aggregate is produced for a month with no input record, so  *)
(* a gap month between two months with records does not appear.            *)
(***************************************************************************)
C20_NoGapFilling ==
    agg.pc = "returned" =>
        /\ {<<ToString(agg.result[k].year), PadStart2(agg.result[k].month)>> :
                k \in 1..Len(agg.result)}
             = {<<transactions[j].date[1], transactions[j].date[2]>> : j \in 1..Len(transactions)}
        /\ {agg.result[k].monthKey : k \in 1..Len(agg.result)}
             = {transactions[j].date[1] \o "-" \o transactions[j].date[2] :
                    j \in 1..Len(transactions)}
        /\ \A k \in 1..Len(agg.result) : agg.result[k].transactionCount >= 1

\* records in 2025-01 and 2025-03 only: two aggregates, none for 2025-02
C20_Witness ==
    /\ agg.pc = "returned"
    /\ Len(transactions) = 3
    /\ {transactions[j].date[2] : j \in 1..3} = {"01", "03"}
    /\ Len(agg.result) = 2
    /\ agg.result[1].monthKey = "2025-01"
    /\ agg.result[2].monthKey = "2025-03"
\* the up to three positions (1-based) immediately before position k of the sequence
PrecedingThree(k) == {j \in 1..(k - 1) : j >= k - 3}

RECURSIVE SumIncomeAt(_)
SumIncomeAt(positions) ==
    IF positions = {} THEN 0
    ELSE LET j == CHOOSE h \in positions : TRUE
         IN  months[j].totalIncome + SumIncomeAt(positions \ {j})

RECURSIVE SumExpensesAt(_)
SumExpensesAt(positions) ==
    IF positions = {} THEN 0
    ELSE LET j == CHOOSE h \in positions : TRUE
         IN  months[j].totalExpenses + SumExpensesAt(positions \ {j})

(***************************************************************************)
(* C21: in createFeatures the income moving-average feature of the month   *)
(* at index i is 0 when i = 0 and otherwise the mean of totalIncome over   *)
(* the min(i, 3) aggregates at indices i - min(i, 3) .. i - 1 (never the   *)
(* month itself), divided by maxIncome; the expense feature is computed    *)
(* the same way from totalExpenses and maxExpense.  (Position k below is   *)
(* index i = k - 1; a maximum of 0 gives the feature 0.)                   *)
(***************************************************************************)
C21_MovingAverageOfPreceding ==
    (cf.pc = "returned" /\ cf.out.ok) =>
        \A k \in 1..Len(months) :
            LET window == PrecedingThree(k)
                size == Cardinality(window)
            IN  /\ size = Min(k - 1, 3)
                /\ (k = 1 \/ cf.out.maxIncome = 0) => RatEq(cf.out.features[k][3], RatZero)
                /\ (k > 1 /\ cf.out.maxIncome > 0) =>
                    RatEq(cf.out.features[k][3],
                          Rat(SumIncomeAt(window), size * cf.out.maxIncome))
                /\ (k = 1 \/ cf.out.maxExpense = 0) => RatEq(cf.out.features[k][4], RatZero)
                /\ (k > 1 /\ cf.out.maxExpense > 0) =>
                    RatEq(cf.out.features[k][4],
                          Rat(SumExpensesAt(window), size * cf.out.maxExpense))

\* incomes 3, 0, 3, 1: the fourth month's feature is the mean 2 of the first three, over 3
C21_Witness ==
    /\ cf.pc = "returned"
    /\ cf.out.ok
    /\ Len(months) = 4
    /\ [k \in 1..4 |-> months[k].totalIncome] = <<3, 0, 3, 1>>
    /\ RatEq(cf.out.features[4][3], Rat(2, 3))
    /\ RatEq(cf.out.features[2][3], Rat(1, 1))
    /\ RatEq(cf.out.features[1][3], RatZero)
\* what createFeatures made of the history the projector was given
HistoryFeatures == createFeatures(gp.monthlyData)

(***************************************************************************)
(* C22: when the historical maximum of a target is 0, createFeatures       *)
(* yields 0 for that target's moving-average feature and 0 for its label   *)
(* in every month, and generateProjections yields 0 for that target's      *)
(* normalized moving-average feature at every step; no division by zero    *)
(* occurs and no value is undefined.                                       *)
(***************************************************************************)
C22_ZeroMaximumGivesZero ==
    gp # Idle =>
        /\ HistoryFeatures.ok
        /\ \A k \in 1..Len(gp.monthlyData) :
            /\ \A c \in 1..4 : HistoryFeatures.features[k][c].d > 0
            /\ HistoryFeatures.incomeLabels[k].d > 0
            /\ HistoryFeatures.expenseLabels[k].d > 0
            /\ gp.maxIncome = 0 =>
                /\ HistoryFeatures.features[k][3] = RatZero
                /\ HistoryFeatures.incomeLabels[k] = RatZero
            /\ gp.maxExpense = 0 =>
                /\ HistoryFeatures.features[k][4] = RatZero
                /\ HistoryFeatures.expenseLabels[k] = RatZero
        /\ gp.i >= 1 =>
            /\ \A c \in 1..4 : gp.featureVector[c].d > 0
            /\ gp.maxIncome = 0 => gp.featureVector[3] = RatZero
            /\ gp.maxExpense = 0 => gp.featureVector[4] = RatZero

\* a history without income, seven steps into the projection
C22_Witness ==
    /\ gp # Idle
    /\ gp.maxIncome = 0
    /\ gp.maxExpense = 4
    /\ gp.i = 7
    /\ gp.featureVector[3] = RatZero
    /\ HistoryFeatures.incomeLabels = <<RatZero, RatZero>>
    /\ HistoryFeatures.features[2][3] = RatZero

(***************************************************************************)
(* C30: when the historical maximum of a target is 0, every projected      *)
(* value of that target is exactly 0 for all 12 months whatever finite     *)
(* value the model predicts, because each prediction is denormalized by    *)
(* multiplying with the maximum; the other target's projections are each   *)
(* its own model's answer times its own maximum, whatever the first is.    *)
(***************************************************************************)
C30_ZeroMaximumProjectsZero ==
    [][(gp # Idle /\ gp'.i = gp.i + 1) =>
        LET made == gp'.projections[gp'.i]
        IN  /\ gp.maxIncome = 0 => made.projectedIncome = 0
            /\ gp.maxExpense = 0 => made.projectedExpenses = 0
            /\ made.projectedIncome = Predict(gp.incomeModel, gp'.featureVector) * gp.maxIncome
            /\ made.projectedExpenses = Predict(gp.expenseModel, gp'.featureVector) * gp.maxExpense
            /\ \A k \in 1..gp.i : gp'.projections[k] = gp.projections[k]]_vars

\* twelve months without income although the model answers -1; expenses are projected
C30_Witness ==
    /\ gp # Idle
    /\ gp.pc = "returned"
    /\ gp.numMonths = 12
    /\ gp.maxIncome = 0
    /\ gp.incomeModel = "under"
    /\ \A k \in 1..12 : gp.projections[k].projectedIncome = 0
    /\ \E k \in 1..12 : gp.projections[k].projectedExpenses > 0
(***************************************************************************)
(* C25: in a pipeline invocation that completes successfully, every        *)
(* numeric buffer the pipeline allocates (the two training tensors of each *)
(* trainModel call; the feature tensor and the two prediction tensors of   *)
(* each projection step) is released before the next one of its kind is    *)
(* allocated, and both models are released before the invocation returns:  *)
(* no buffer or model allocated by the invocation is live after it         *)
(* returns.                                                                *)
(***************************************************************************)
C25_BuffersReleased ==
    /\ run.pc \in {"trainingIncome", "trainingExpense", "projecting", "returned"} =>
        /\ ~run.tensorReused
        /\ run.liveTensors \subseteq TrainTensors
        /\ run.modelsBuilt = 2
    /\ run.pc \in {"projecting", "returned"} =>
        /\ run.liveTensors = {}
        /\ ~run.gp.tensorReused
        /\ run.gp.liveTensors = {}
    /\ run.pc = "projecting" => run.modelsDisposed = 0
    /\ run.pc = "returned" =>
        /\ run.gp.i = PipelineHorizon
        /\ run.modelsDisposed = run.modelsBuilt

\* a returned invocation: two models built and disposed, no tensor live
C25_Witness ==
    /\ run.pc = "returned"
    /\ run.trainCalls = 2
    /\ run.gp.i = 12
    /\ run.liveTensors = {} /\ run.gp.liveTensors = {}
    /\ run.modelsBuilt = 2 /\ run.modelsDisposed = 2
(***************************************************************************)
(* The pipeline under the event loop's scheduling: an awaited operation    *)
(* that is pending eventually settles and its continuation is run.  One    *)
(* invocation has at most one continuation ready at a time.                *)
(***************************************************************************)
Settles ==
    \/ FetchSettles
    \/ TextSettles
    \/ TrainIncomeSettles
    \/ TrainExpenseSettles
    \/ ProjectionStep
    \/ Finish

SpecLive == Init /\ [][Next]_vars /\ WF_vars(Settles)

\* the order of the pipeline's stages
StageRank(pc) ==
    CASE pc = "idle" -> 0
      [] pc = "fetching" -> 1
      [] pc = "readingText" -> 2
      [] pc = "trainingIncome" -> 3
      [] pc = "trainingExpense" -> 4
      [] pc = "projecting" -> 5
      [] pc \in {"returned", "raised"} -> 6

(***************************************************************************)
(* C26: every started invocation of generateAndSaveProjections eventually  *)
(* finishes, by returning a result or by raising, provided each awaited    *)
(* operation eventually settles; the projection loop performs exactly      *)
(* numMonths iterations and no stage retries or goes back to an earlier    *)
(* stage.                                                                  *)
(***************************************************************************)
C26_EventuallyFinishes ==
    /\ (run.pc # "idle") ~> (run.pc \in {"returned", "raised"})
    /\ [](run.pc = "returned" =>
            (run.gp.i = run.gp.numMonths /\ Len(run.gp.projections) = run.gp.numMonths))
    /\ [][run' # run =>
            \/ StageRank(run'.pc) > StageRank(run.pc)
            \/ /\ run.pc = "projecting" /\ run'.pc = "projecting"
               /\ run'.gp.i = run.gp.i + 1
               /\ run'.gp.i <= run.gp.numMonths]_vars

\* an invocation has come to its end after twelve iterations of the loop
C26_Witness ==
    /\ run.pc = "returned"
    /\ run.gp.numMonths = 12
    /\ run.gp.i = 12
    /\ run.fetched = "ok" /\ run.body = "resolved"
    /\ run.result # Idle
(***************************************************************************)
(* Two overlapping invocations of generateAndSaveProjections.  Each has    *)
(* its own frame; the continuations of the two interleave at the           *)
(* suspension points, and both write the Result Store's one key.  `saved`  *)
(* lists the invocations in the order of their calls of                    *)
(* saveProjectionsToStorage.                                               *)
(***************************************************************************)
Invocations == {"first", "second"}

\* the files served to the overlapping invocations: the maxima differ
RaceFiles ==
    {<<[date |-> <<"2024", "12", "31">>, type |-> "income", amount |-> 2, currency |-> "GBP"],
       [date |-> <<"2025", "01", "15">>, type |-> "income", amount |-> 2, currency |-> "GBP"],
       [date |-> <<"2025", "03", "01">>, type |-> "income", amount |-> 2, currency |-> "GBP"]>>,
     <<[date |-> <<"2025", "01", "15">>, type |-> "income", amount |-> 2, currency |-> "GBP"],
       [date |-> <<"2025", "01", "15">>, type |-> "expense", amount |-> 2, currency |-> "GBP"],
       [date |-> <<"2024", "12", "31">>, type |-> "income", amount |-> 2, currency |-> "GBP"],
       [date |-> <<"2025", "01", "15">>, type |-> "income", amount |-> 2, currency |-> "GBP"],
       [date |-> <<"2025", "03", "01">>, type |-> "income", amount |-> 2, currency |-> "GBP"]>>}

InitRace ==
    /\ race = [frames |-> [id \in Invocations |-> Idle], saved |-> <<>>]
    /\ localStorage = StoredNothing
    /\ lastSaved = Idle
    /\ loadRet = Idle
    /\ run = Idle
    /\ filterCall = Idle
    /\ yearly = Idle
    /\ dash = Idle
    /\ FeatAtRest /\ AggAtRest /\ ProjAtRest /\ ParseAtRest

\* the frame of invocation id becomes f
Resumed(id, f) == [race EXCEPT !.frames[id] = f]

RaceInvoke ==
    /\ \E id \in Invocations, served \in RaceFiles :
        /\ race.frames[id].pc = "idle"
        /\ race' = Resumed(id, Invoked("GBP", localStorage, served))
    /\ UNCHANGED <<filterCall, yearly, dash, featVars, aggVars, projVars, storeVars, pipeVars, parseVars>>

RaceFetchSettles ==
    /\ \E id \in Invocations, outcome \in {"rejected", "notOk", "ok"} :
        /\ race.frames[id].pc = "fetching"
        /\ race' = Resumed(id, FetchSettled(race.frames[id], outcome))
    /\ UNCHANGED <<filterCall, yearly, dash, featVars, aggVars, projVars, storeVars, pipeVars, parseVars>>

RaceTextSettles ==
    /\ \E id \in Invocations :
        /\ race.frames[id].pc = "readingText"
        /\ race' = Resumed(id, TextSettled(race.frames[id], "resolved", race.frames[id].served))
    /\ UNCHANGED <<filterCall, yearly, dash, featVars, aggVars, projVars, storeVars, pipeVars, parseVars>>

RaceTrainIncomeSettles ==
    /\ \E id \in Invocations, kind \in FittedKinds :
        /\ race.frames[id].pc = "trainingIncome"
        /\ race' = Resumed(id, TrainIncomeSettled(race.frames[id], kind))
    /\ UNCHANGED <<filterCall, yearly, dash, featVars, aggVars, projVars, storeVars, pipeVars, parseVars>>

RaceTrainExpenseSettles ==
    /\ \E id \in Invocations, kind \in FittedKinds :
        /\ race.frames[id].pc = "trainingExpense"
        /\ race' = Resumed(id, TrainExpenseSettled(race.frames[id], kind))
    /\ UNCHANGED <<filterCall, yearly, dash, featVars, aggVars, projVars, storeVars, pipeVars, parseVars>>

RaceProjectionStep ==
    /\ \E id \in Invocations :
        /\ race.frames[id].pc = "projecting"
        /\ race.frames[id].gp.i < race.frames[id].gp.numMonths
        /\ race' = Resumed(id, ProjectionStepped(race.frames[id]))
    /\ UNCHANGED <<filterCall, yearly, dash, featVars, aggVars, projVars, storeVars, pipeVars, parseVars>>

RaceFinish ==
    /\ \E id \in Invocations, setItemThrows \in BOOLEAN :
        LET f == race.frames[id]
            now == IF id = "first" THEN "2026-11-06T09:00:00.000Z" ELSE "2026-11-07T09:00:00.000Z"
            out == saveProjectionsToStorage(localStorage, ResultOf(f, now), setItemThrows)
        IN  /\ f.pc = "projecting"
            /\ ~(f.gp.i < f.gp.numMonths)
            /\ localStorage' = out.store
            /\ lastSaved' = SaveReturned(lastSaved, ResultOf(f, now), setItemThrows, out.threw)
            /\ loadRet' = Idle
            /\ race' = [frames |-> [race.frames EXCEPT
                                        ![id] = Finished(f, now, setItemThrows, out.threw)],
                        saved |-> Append(race.saved, id)]
    /\ UNCHANGED <<filterCall, yearly, dash, featVars, aggVars, projVars, pipeVars, parseVars>>

NextRace ==
    \/ RaceInvoke
    \/ RaceFetchSettles
    \/ RaceTextSettles
    \/ RaceTrainIncomeSettles
    \/ RaceTrainExpenseSettles
    \/ RaceProjectionStep
    \/ RaceFinish

SpecRace == InitRace /\ [][NextRace]_vars
\* the largest of the monthly totals, found by comparison
IsLargest(value, totals) ==
    /\ \E k \in 1..Len(totals) : totals[k] = value
    /\ \A k \in 1..Len(totals) : totals[k] <= value

\* the constants generateProjections works with
ConstantsOf(g) ==
    [maxIncome |-> g.maxIncome, maxExpense |-> g.maxExpense,
     minYear |-> g.minYear, maxYear |-> g.maxYear]

Projecting(f) == f.pc \in {"projecting", "returned"}

(***************************************************************************)
(* C23: within one pipeline invocation the constants maxIncome,            *)
(* maxExpense, minYear and maxYear used by generateProjections at every    *)
(* one of the 12 steps are exactly the values createFeatures derived from  *)
(* the full historical aggregate sequence of that invocation; they are     *)
(* never recomputed or changed as predictions are appended, and a second   *)
(* invocation running interleaved with the first cannot change the         *)
(* constants the first one uses.                                           *)
(***************************************************************************)
C23_ConstantsFixedPerInvocation ==
    /\ [](\A id \in Invocations :
            (race # Idle /\ Projecting(race.frames[id])) =>
                LET f == race.frames[id]
                    history == aggregateByMonth(filterByCurrency(f.served, f.currency))
                IN  /\ f.gp.monthlyData = history
                    /\ IsLargest(f.gp.maxIncome, [k \in 1..Len(history) |-> history[k].totalIncome])
                    /\ IsLargest(f.gp.maxExpense, [k \in 1..Len(history) |-> history[k].totalExpenses])
                    /\ IsLargest(f.gp.maxYear, [k \in 1..Len(history) |-> history[k].year])
                    /\ IsLargest(0 - f.gp.minYear, [k \in 1..Len(history) |-> 0 - history[k].year])
                    /\ ConstantsOf(f.gp) = ConstantsOf(f.feat)
                    /\ \A k \in 1..f.gp.i :
                        f.gp.projections[k].projectedIncome \in
                            {Predict(f.incomeModel, <<Rat(m, 12)>>) * f.feat.maxIncome : m \in 1..12})
    /\ [][\A id \in Invocations :
            (race # Idle /\ Projecting(race.frames[id])) =>
                ConstantsOf(race'.frames[id].gp) = ConstantsOf(race.frames[id].gp)]_vars

\* both invocations are in the projection loop, with different maxima, each keeping its own
C23_Witness ==
    /\ race # Idle
    /\ race.frames["first"].pc = "projecting"
    /\ race.frames["second"].pc = "projecting"
    /\ race.frames["first"].gp.i = 5
    /\ race.frames["second"].gp.i = 7
    /\ race.frames["first"].gp.maxIncome = 2
    /\ race.frames["first"].gp.maxExpense = 0
    /\ race.frames["second"].gp.maxIncome = 4
    /\ race.frames["second"].gp.maxExpense = 2

\* the invocations whose write went through, in the order of their writes
Writers == SelectSeq(race.saved, LAMBDA id : ~race.frames[id].setItemThrew)

(***************************************************************************)
(* C24: when two invocations of generateAndSaveProjections overlap, the    *)
(* Result Store's key afterwards holds the bundle of whichever invocation  *)
(* saved (wrote the key) last, and at every point in time the key holds    *)
(* either nothing or the complete serialized bundle of exactly one         *)
(* invocation, never a mixture of two; an invocation is past its save      *)
(* exactly when it has returned.                                           *)
(***************************************************************************)
C24_LastWriterWins ==
    race # Idle =>
        /\ Writers = <<>> => localStorage = StoredNothing
        /\ Writers # <<>> =>
            localStorage = Stored(JSONStringify(race.frames[Writers[Len(Writers)]].result))
        /\ \A id \in Invocations :
            Projecting(race.frames[id]) =>
                (race.frames[id].pc = "returned" <=> \E k \in 1..Len(race.saved) : race.saved[k] = id)

\* the second started earlier but wrote first; the key holds the first's different bundle
C24_Witness ==
    /\ race # Idle
    /\ race.saved = <<"second", "first">>
    /\ Writers = <<"second", "first">>
    /\ race.frames["second"].storeAtStart = StoredNothing
    /\ race.frames["first"].storeAtStart = StoredNothing
    /\ race.frames["first"].result.projections # race.frames["second"].result.projections
    /\ localStorage = Stored(JSONStringify(race.frames["first"].result))
(***************************************************************************)
(* The Dashboard.  App renders <Dashboard /> only while its view is        *)
(* "dashboard": leaving the view unmounts the component and discards its   *)
(* state, coming back mounts a new instance with the initial state.  A     *)
(* handleGenerateProjections call outlives the instance that started it    *)
(* (it is then marked orphaned); the state updates it makes to an          *)
(* unmounted instance are dropped.  The stores are taken as hydrated.      *)
(***************************************************************************)
MaxClicks == 2          \* clicks of the trigger button

Views == {"dashboard", "transactions", "add"}
SelectableCurrencies == {"gbp", "usd"}

NoError == [isNull |-> TRUE, message |-> ""]
ErrorText(message) == [isNull |-> FALSE, message |-> message]

\* the state of a Dashboard instance as useState initializes it
Mounted(selectedCurrency) ==
    [view |-> "dashboard", selectedCurrency |-> selectedCurrency,
     projections |-> JsNull, isGeneratingProjections |-> FALSE,
     projectionError |-> NoError, historicalYearlyData |-> <<>>]

\* another view is shown: no Dashboard instance, nothing of it displayed
Unmounted(view) ==
    [view |-> view, selectedCurrency |-> "",
     projections |-> JsNull, isGeneratingProjections |-> FALSE,
     projectionError |-> NoError, historicalYearlyData |-> <<>>]

activeCurrencyId(ui) == IF ui.selectedCurrency # "" THEN ui.selectedCurrency ELSE "gbp"

\* the trigger button: rendered by the mounted Dashboard, disabled by the flag
ButtonEnabled(ui) == ui.view = "dashboard" /\ ~ui.isGeneratingProjections

\* the instance that started handler h is the one on screen
Displayed(ui, h) == ui.view = "dashboard" /\ ~h.orphaned

\* the Dashboard is unmounted: the handlers in flight lose their instance
Orphaned(handlers) == [k \in 1..Len(handlers) |-> [handlers[k] EXCEPT !.orphaned = TRUE]]

\* the i-th element of a sequence removed
Without(seq, i) == [k \in 1..(Len(seq) - 1) |-> IF k < i THEN seq[k] ELSE seq[k + 1]]

\* new Date().toISOString() in the n-th handler's pipeline call
TimestampOf(n) ==
    "2026-11-06T09:0" \o <<"0", "1", "2", "3", "4", "5", "6", "7", "8", "9">>[n + 1] \o ":00.000Z"

\* handleGenerateProjections up to its first await
HandlerStarted(d, served) ==
    LET currency == UpperCase(activeCurrencyId(d.ui))
    IN  [d EXCEPT !.clicks = @ + 1,
                  !.ui = [@ EXCEPT !.isGeneratingProjections = TRUE, !.projectionError = NoError],
                  !.handlers = Append(@, [n |-> d.clicks + 1, orphaned |-> FALSE,
                                          currency |-> currency, served |-> served,
                                          pc |-> "loadingHistorical",
                                          yearly |-> YearlyInvoked(currency),
                                          call |-> Idle,
                                          ended |-> "pending", result |-> JsNull,
                                          error |-> ""])]

\* mutation: the catch block also drops the displayed result
HandlerRaised_ClearsResult(d, k, call, message) ==
    LET h == d.handlers[k]
    IN  [d EXCEPT !.ui = IF Displayed(d.ui, h)
                         THEN [@ EXCEPT !.projectionError = ErrorText(message),
                                        !.projections = JsNull,
                                        !.isGeneratingProjections = FALSE]
                         ELSE @,
                  !.handlers = Without(@, k),
                  !.last = [h EXCEPT !.pc = "done", !.call = call, !.ended = "raised",
                                     !.error = message]]

\* the catch block and the finally block
HandlerRaised(d, k, call, message) ==
    LET h == d.handlers[k]
    IN  [d EXCEPT !.ui = IF Displayed(d.ui, h)
                         THEN [@ EXCEPT !.projectionError = ErrorText(message),
                                        !.isGeneratingProjections = FALSE]
                         ELSE @,
                  !.handlers = Without(@, k),
                  !.last = [h EXCEPT !.pc = "done", !.call = call, !.ended = "raised",
                                     !.error = message]]

\* setProjections(result) and the finally block
HandlerReturned(d, k, call) ==
    LET h == d.handlers[k]
    IN  [d EXCEPT !.ui = IF Displayed(d.ui, h)
                         THEN [@ EXCEPT !.projections = call.result,
                                        !.isGeneratingProjections = FALSE]
                         ELSE @,
                  !.handlers = Without(@, k),
                  !.last = [h EXCEPT !.pc = "done", !.call = call, !.ended = "returned",
                                     !.result = call.result]]

\* loadHistoricalYearlyData from its call to its settling
HistoricalLoaded(y, outcome, served) ==
    IF outcome \in {"rejected", "notOk"} THEN YearlyFetchSettled(y, outcome)
    ELSE YearlyTextSettled(YearlyFetchSettled(y, "ok"),
                           IF outcome = "bodyRejected" THEN "rejected" ELSE "resolved",
                           served)

\* the handler after await loadHistoricalYearlyData: the list is kept and the pipeline called
HandlerAfterHistorical(d, k, y, store) ==
    LET h == d.handlers[k]
    IN  IF y.pc = "raised"
        THEN HandlerRaised([d EXCEPT !.handlers[k].yearly = y], k, Idle, FetchRejected)
        ELSE [d EXCEPT !.ui = IF Displayed(d.ui, h)
                              THEN [@ EXCEPT !.historicalYearlyData = y.ret]
                              ELSE @,
                       !.handlers[k] = [h EXCEPT !.pc = "generating", !.yearly = y,
                                                 !.call = Invoked(h.currency, store, h.served)]]

RECURSIVE RunToSave(_, _)
\* generateAndSaveProjections run from its call up to its save, or to its raise
RunToSave(f, in) ==
    CASE f.pc = "fetching" -> RunToSave(FetchSettled(f, in.fetch), in)
      [] f.pc = "readingText" -> RunToSave(TextSettled(f, "resolved", f.served), in)
      [] f.pc = "trainingIncome" -> RunToSave(TrainIncomeSettled(f, in.incomeKind), in)
      [] f.pc = "trainingExpense" -> RunToSave(TrainExpenseSettled(f, in.expenseKind), in)
      [] f.pc = "projecting" /\ f.gp.i < f.gp.numMonths -> RunToSave(ProjectionStepped(f), in)
      [] OTHER -> f

\* the file the server holds: GBP records in three months, one of them an expense
DashFiles == {file \in RaceFiles : Len(file) = 5}

InitDash ==
    /\ dash = [ui |-> Mounted("gbp"), clicks |-> 0,
               handlers |-> <<>>, last |-> Idle]
    /\ localStorage = StoredNothing
    /\ lastSaved = Idle
    /\ loadRet = Idle
    /\ run = Idle
    /\ filterCall = Idle
    /\ yearly = Idle
    /\ race = Idle
    /\ FeatAtRest /\ AggAtRest /\ ProjAtRest /\ ParseAtRest

\* the trigger button is clicked
DashClick ==
    /\ ButtonEnabled(dash.ui)
    /\ dash.clicks < MaxClicks
    /\ \E served \in DashFiles : dash' = HandlerStarted(dash, served)
    /\ UNCHANGED <<filterCall, yearly, race, featVars, aggVars, projVars, storeVars, pipeVars, parseVars>>

\* a handler's await of loadHistoricalYearlyData settles
DashHistoricalSettles ==
    /\ \E k \in 1..Len(dash.handlers), outcome \in {"rejected", "notOk", "bodyRejected", "resolved"} :
        /\ dash.handlers[k].pc = "loadingHistorical"
        /\ dash' = HandlerAfterHistorical(dash, k,
                        HistoricalLoaded(dash.handlers[k].yearly, outcome, dash.handlers[k].served),
                        localStorage)
    /\ UNCHANGED <<filterCall, yearly, race, featVars, aggVars, projVars, storeVars, pipeVars, parseVars>>

\* a handler's await of generateAndSaveProjections settles
DashPipelineSettles ==
    /\ \E k \in 1..Len(dash.handlers), fetch \in {"rejected", "notOk", "ok"} :
        LET h == dash.handlers[k]
            f == RunToSave(h.call, [fetch |-> fetch, incomeKind |-> "seasonal",
                                    expenseKind |-> "over"])
            now == TimestampOf(h.n)
        IN  /\ h.pc = "generating"
            /\ IF f.pc = "raised"
               THEN /\ dash' = HandlerRaised(dash, k, f, f.error)
                    /\ UNCHANGED localStorage
               ELSE \E setItemThrows \in BOOLEAN :
                    LET out == saveProjectionsToStorage(localStorage, ResultOf(f, now),
                                                        setItemThrows)
                        call == Finished(f, now, setItemThrows, out.threw)
                    IN  /\ localStorage' = out.store
                        /\ dash' = IF call.pc = "returned"
                                   THEN HandlerReturned(dash, k, call)
                                   ELSE HandlerRaised(dash, k, call, call.error)
    /\ UNCHANGED <<filterCall, yearly, race, featVars, aggVars, projVars, lastSaved, loadRet, pipeVars, parseVars>>

\* a navigation button of App is clicked: setCurrentView
DashNavigate ==
    /\ \E view \in Views \ {dash.ui.view} :
        IF view = "dashboard"
        THEN \E selected \in SelectableCurrencies :
                dash' = [dash EXCEPT !.ui = Mounted(selected)]
        ELSE dash' = [dash EXCEPT !.ui = Unmounted(view), !.handlers = Orphaned(@)]
    /\ UNCHANGED <<filterCall, yearly, race, featVars, aggVars, projVars, storeVars, pipeVars, parseVars>>

\* the currency selector changes
DashSelectCurrency ==
    /\ dash.ui.view = "dashboard"
    /\ \E selected \in SelectableCurrencies \ {dash.ui.selectedCurrency} :
        dash' = [dash EXCEPT !.ui.selectedCurrency = selected]
    /\ UNCHANGED <<filterCall, yearly, race, featVars, aggVars, projVars, storeVars, pipeVars, parseVars>>

NextDash ==
    \/ DashClick
    \/ DashHistoricalSettles
    \/ DashPipelineSettles
    \/ DashNavigate
    \/ DashSelectCurrency

SpecDash == InitDash /\ [][NextDash]_vars
\* the handlers started so far that have not ended
InFlight == {k \in 1..Len(dash.handlers) : dash.handlers[k].ended = "pending"}

(***************************************************************************)
(* C27 (as stated): the dashboard serializes pipeline invocations: the     *)
(* generating flag is set while the invocation it started is in flight and *)
(* cleared once it has ended, the trigger button is disabled whenever the  *)
(* flag is set, and at most one invocation started from the dashboard is   *)
(* in flight at any time.                                                  *)
(***************************************************************************)
C27_AsStated ==
    dash # Idle =>
        /\ dash.ui.isGeneratingProjections => ~ButtonEnabled(dash.ui)
        /\ dash.ui.view = "dashboard" =>
            (dash.ui.isGeneratingProjections
                <=> \E k \in InFlight : ~dash.handlers[k].orphaned)
        /\ Cardinality(InFlight) <= 1

\* a handler ended in this step
HandlerEnded == dash'.last # dash.last

\* the handler that ended in this step was started by the instance on screen
EndedOnScreen == dash.ui.view = "dashboard" /\ ~dash'.last.orphaned

HandlerFrames ==
    {dash.handlers[k] : k \in 1..Len(dash.handlers)}
        \cup (IF dash.last = Idle THEN {} ELSE {dash.last})

(***************************************************************************)
(* C29: loadHistoricalYearlyData never raises to its caller: when the      *)
(* source file cannot be loaded it returns an empty list, so the handler   *)
(* goes on to call generateAndSaveProjections, with the same currency,     *)
(* even though the historical load failed; a handler never ends in an      *)
(* error without having called the pipeline.                               *)
(***************************************************************************)
C29_HistoricalFailureDoesNotStop ==
    dash # Idle =>
        \A h \in HandlerFrames :
            h.pc # "loadingHistorical" =>
                /\ h.yearly.pc = "returned"
                /\ ~h.yearly.loaded => h.yearly.ret = <<>>
                /\ h.call # Idle
                /\ h.call.currency = h.currency
                /\ h.ended = "raised" => h.error = h.call.error

\* the historical load failed, the pipeline was called all the same, and its result is shown
C29_Witness ==
    /\ dash # Idle
    /\ dash.last # Idle
    /\ ~dash.last.yearly.loaded
    /\ dash.last.yearly.ret = <<>>
    /\ dash.last.ended = "returned"
    /\ dash.last.call.pc = "returned"
    /\ dash.ui.view = "dashboard"
    /\ dash.ui.historicalYearlyData = <<>>
    /\ dash.ui.projections = dash.last.result
====
